---- MODULE Spec2Model ----
(***************************************************************************)
(* DirSync: a client mirrors a source directory tree to a server's         *)
(* destination tree over HTTP (client.py, server.py).                      *)
(*                                                                         *)
(* The client runs two threads: the watchdog observer thread, which calls  *)
(* the on_created/on_deleted/on_modified/on_moved handlers one event at a  *)
(* time, and the main thread, which runs wait_for_server, sync_directory   *)
(* and then the poll loop of watch().  Both threads use self.updatedict    *)
(* and both call copy_file; nothing in client.py locks either.  A thread   *)
(* step of this model is one dictionary access or one HTTP request.        *)
(*                                                                         *)
(* A file is a sequence of bytes.  Paths are sequences of segments.        *)
(***************************************************************************)
EXTENDS Integers, Sequences, FiniteSets, TLC

\* ------------------------------------------------------------------ bounds
MaxLen == 4
MaxBlock == 2
MaxOps == 2
MaxTime == 4
MaxQuiet == 5
MaxWrites == 3
MaxRuns == 2
Subsec == 2
UpdateMax == 2
POLL_TIME == 1

Bytes == {0, 1}

Min(a, b) == IF a < b THEN a ELSE b
Max(a, b) == IF a > b THEN a ELSE b

\* ceil(a / b) for b > 0
CeilDiv(a, b) == (a + b - 1) \div b

\* ------------------------------------------------------------------- paths
\* The client's self.directory and the server's self.directory.
SrcRoot == <<"src">>
DstRoot == <<"dst">>

\* Names under the roots.  "f 1" has a character urllib.parse.quote escapes.
FileRels == {<<"f 1">>, <<"h">>, <<"d", "g">>, <<"e", "g">>}
DirRels == {<<"d">>, <<"e">>}
RelPaths == FileRels \cup DirRels
LocalPaths == {SrcRoot \o r : r \in RelPaths}
ServerPaths == {DstRoot \o r : r \in RelPaths}

IsPrefix(p, q) == Len(p) <= Len(q) /\ SubSeq(q, 1, Len(p)) = p
Parent(p) == SubSeq(p, 1, Len(p) - 1)

RECURSIVE CommonLen(_, _)
CommonLen(p, q) ==
    IF p = <<>> \/ q = <<>> \/ Head(p) # Head(q) THEN 0
    ELSE 1 + CommonLen(Tail(p), Tail(q))

\* os.path.normpath / the kernel's path walk: "." is dropped, ".." pops.
RECURSIVE NormInto(_, _)
NormInto(acc, p) ==
    IF p = <<>> THEN acc
    ELSE IF Head(p) = "." THEN NormInto(acc, Tail(p))
    ELSE IF Head(p) = ".." THEN
        NormInto(IF acc = <<>> THEN acc ELSE SubSeq(acc, 1, Len(acc) - 1), Tail(p))
    ELSE NormInto(Append(acc, Head(p)), Tail(p))

Norm(p) == NormInto(<<>>, p)

\* os.path.relpath(path, start): ".." for each segment of start below the
\* common part, then the rest of path; "." when nothing is left.
RelPath(path, start) ==
    LET i == CommonLen(Norm(start), Norm(path))
        ups == [k \in 1..(Len(Norm(start)) - i) |-> ".."]
        rest == SubSeq(Norm(path), i + 1, Len(Norm(path)))
    IN IF ups \o rest = <<>> THEN <<".">> ELSE ups \o rest

\* os.path.join(a, b): an absolute b (written with the first segment "/")
\* discards a.
Join(a, b) == IF b # <<>> /\ b[1] = "/" THEN Tail(b) ELSE a \o b

\* urllib.parse.quote / unquote on one segment ("/" is safe and separates
\* segments): a space becomes %20; unreserved characters stay.
QuoteSeg(s) == IF s = "f 1" THEN "f%201" ELSE s
UnquoteSeg(s) == IF s = "f%201" THEN "f 1" ELSE s
Quote(p) == [i \in 1..Len(p) |-> QuoteSeg(p[i])]
Unquote(p) == [i \in 1..Len(p) |-> UnquoteSeg(p[i])]

\* ------------------------------------------------------------- file system
\* A tree maps normalised absolute paths to nodes.  An mtime counts units of
\* 1/Subsec second (st_mtime_ns).  mtime 0 is a stamp the server's own clock
\* gave (a write without utime); source mtimes are >= 1.
Absent == [kind |-> "absent", data |-> <<>>, mtime |-> 0]
Dir == [kind |-> "dir", data |-> <<>>, mtime |-> 0]
File(d, m) == [kind |-> "file", data |-> d, mtime |-> m]

Node(fs, p) == IF Norm(p) \in DOMAIN fs THEN fs[Norm(p)] ELSE Absent
IsDir(fs, p) == Norm(p) = SrcRoot \/ Norm(p) = DstRoot \/ Node(fs, p).kind = "dir"
IsFile(fs, p) == Node(fs, p).kind = "file"
Exists(fs, p) == IsDir(fs, p) \/ IsFile(fs, p)
Children(fs, p) == {q \in DOMAIN fs : Len(q) > Len(Norm(p)) /\ IsPrefix(Norm(p), q)
                                      /\ fs[q].kind # "absent"}
Put(fs, p, n) == IF Norm(p) \in DOMAIN fs THEN [fs EXCEPT ![Norm(p)] = n] ELSE fs

\* A tree is well formed when every node's parent is a directory.
WellFormed(fs) == \A p \in DOMAIN fs : fs[p].kind # "absent" => IsDir(fs, Parent(p))

\* -------------------------------------------------------------- checksums
\* hashlib.sha1 of a block, taken to be collision free: the digest of a
\* block is the block under a tag.
Sha1(block) == <<"sha1", block>>

\* The blocks f.read(blocksize) yields from position 0 to EOF.
RECURSIVE Blocks(_, _)
Blocks(data, bs) ==
    IF data = <<>> THEN <<>>
    ELSE <<SubSeq(data, 1, Min(bs, Len(data)))>>
         \o Blocks(SubSeq(data, Min(bs, Len(data)) + 1, Len(data)), bs)

Zeros(n) == [i \in 1..n |-> 0]

\* f.seek(offset); f.write(body) on a file holding data: a gap past EOF reads
\* as zeros; an empty body writes nothing.
WriteAt(data, offset, body) ==
    IF body = <<>> THEN data
    ELSE LET base == IF Len(data) < offset THEN data \o Zeros(offset - Len(data)) ELSE data
         IN SubSeq(base, 1, offset) \o body
            \o SubSeq(base, offset + Len(body) + 1, Len(base))

\* f.truncate(size): cut, or extend with zeros.
Truncate_Mutant(data, size) == data
Truncate_Short(data, size) == IF Len(data) >= size THEN SubSeq(data, 1, size) ELSE data
Truncate(data, size) ==
    IF Len(data) >= size THEN SubSeq(data, 1, size)
    ELSE data \o Zeros(size - Len(data))

\* ------------------------------------------------------------------ server
\* Every handler is a function of the destination tree and the request; it
\* gives the HTTP status and the tree afterwards.  IOError is OSError, so
\* every failing file system call below answers 403.
Resp(st, fs) == [status |-> st, fs |-> fs]

\* os.path.join(self.directory, urllib.parse.unquote(name))
ServerPath(rel) == Join(DstRoot, Unquote(rel))

dir_exists(fs, rel) ==
    IF IsDir(fs, ServerPath(rel)) THEN Resp(200, fs) ELSE Resp(410, fs)

\* os.makedirs(name, exist_ok=True): the missing ancestors first, then the
\* leaf; a file in the way raises.
RECURSIVE MakeDirs(_, _)
MakeDirs(fs, p) ==
    IF IsDir(fs, p) THEN [ok |-> TRUE, fs |-> fs]
    ELSE IF IsFile(fs, p) \/ Norm(p) \notin DOMAIN fs THEN [ok |-> FALSE, fs |-> fs]
    ELSE LET up == MakeDirs(fs, Parent(Norm(p)))
         IN IF up.ok THEN [ok |-> TRUE, fs |-> Put(up.fs, p, Dir)] ELSE up

create_dir_Mutant(fs, rel) ==
    LET r == MakeDirs(fs, ServerPath(rel))
    IN IF r.ok /\ ~IsDir(fs, ServerPath(rel)) THEN Resp(200, r.fs) ELSE Resp(403, fs)
create_dir(fs, rel) ==
    LET r == MakeDirs(fs, ServerPath(rel))
    IN IF r.ok THEN Resp(200, r.fs) ELSE Resp(403, r.fs)

\* check_file answers with flask.jsonify(os.stat(filename)) for a regular
\* file: the stat tuple as a JSON array, whose st_mtime is in whole seconds.
check_file(fs, rel) ==
    LET n == Node(fs, ServerPath(rel))
    IN IF n.kind = "file"
       THEN [status |-> 200, size |-> Len(n.data), mtime |-> n.mtime \div Subsec]
       ELSE [status |-> 410, size |-> 0, mtime |-> 0]

file_sums_Mutant(fs, rel, bs) ==
    LET n == Node(fs, ServerPath(rel))
        blocks == IF n.kind = "file"
                  THEN SelectSeq(Blocks(n.data, bs), LAMBDA b : Len(b) = bs) ELSE <<>>
    IN [status |-> 200, Blocksize |-> bs,
        Checksums |-> [i \in 1..Len(blocks) |-> Sha1(blocks[i])]]
file_sums(fs, rel, bs) ==
    LET n == Node(fs, ServerPath(rel))
        blocks == IF n.kind = "file" THEN Blocks(n.data, bs) ELSE <<>>
    IN [status |-> 200, Blocksize |-> bs,
        Checksums |-> [i \in 1..Len(blocks) |-> Sha1(blocks[i])]]

\* open(filename, "wb") creates or empties a file; it raises on a directory
\* and when the parent is no directory.
CanCreate(fs, p) ==
    /\ Norm(p) \in DOMAIN fs
    /\ ~IsDir(fs, p)
    /\ IsDir(fs, Parent(Norm(p)))

copy_file(fs, rel, body, times, mtime) ==
    LET p == ServerPath(rel)
    IN IF ~CanCreate(fs, p) THEN Resp(403, fs)
       ELSE Resp(200, Put(fs, p, File(body, IF times THEN mtime ELSE 0)))

\* copy_block: "rb+" on an existing file, else "wb"; seek, write, truncate
\* when filesize is given, utime when the times are given.  A write or a
\* truncate without utime leaves the server clock's stamp.
copy_block_Mutant(fs, rel, offset, body, hasSize, filesize, times, mtime) ==
    LET p == ServerPath(rel)
        old == Node(fs, p)
        start == IF old.kind = "file" THEN old.data ELSE <<>>
        written == WriteAt(start, offset, body)
        sized == IF hasSize THEN Truncate(written, filesize) ELSE written
    IN IF body = <<>> THEN Resp(200, fs)
       ELSE IF old.kind # "file" /\ ~CanCreate(fs, p) THEN Resp(403, fs)
       ELSE Resp(200, Put(fs, p, File(sized, IF times THEN mtime ELSE 0)))
copy_block(fs, rel, offset, body, hasSize, filesize, times, mtime) ==
    LET p == ServerPath(rel)
        old == Node(fs, p)
        start == IF old.kind = "file" THEN old.data ELSE <<>>
        written == WriteAt(start, offset, body)
        sized == IF hasSize THEN Truncate(written, filesize) ELSE written
        stamp == IF times THEN mtime
                 ELSE IF old.kind = "file" /\ body = <<>> /\ ~hasSize THEN old.mtime
                 ELSE 0
    IN IF old.kind # "file" /\ ~CanCreate(fs, p) THEN Resp(403, fs)
       ELSE Resp(200, Put(fs, p, File(sized, stamp)))

\* delete_object: rmdir for a directory (raises when it is not empty),
\* remove for a file, nothing otherwise.
delete_object_Mutant(fs, rel) == Resp(200, fs)
delete_object_Recursive(fs, rel) ==
    Resp(200, [q \in DOMAIN fs |-> IF IsPrefix(Norm(ServerPath(rel)), q) THEN Absent ELSE fs[q]])
delete_object(fs, rel) ==
    LET p == ServerPath(rel)
    IN IF IsDir(fs, p)
       THEN IF Children(fs, p) # {} \/ Norm(p) \notin DOMAIN fs THEN Resp(403, fs)
            ELSE Resp(200, Put(fs, p, Absent))
       ELSE IF IsFile(fs, p) THEN Resp(200, Put(fs, p, Absent))
       ELSE Resp(200, fs)

\* The tree after os.rename(old, new) succeeded: the subtree moves.
MoveTree(fs, old, new) ==
    [q \in DOMAIN fs |->
        IF IsPrefix(new, q)
        THEN LET from == old \o SubSeq(q, Len(new) + 1, Len(q))
             IN IF from \in DOMAIN fs THEN fs[from] ELSE Absent
        ELSE IF IsPrefix(old, q) THEN Absent
        ELSE fs[q]]

\* rename_object: FileNotFoundError (no old object, or no directory to hold
\* the new name) answers 200 "Not renamed"; any other OSError answers 403.
rename_object_Mutant(fs, oldrel, newrel) == Resp(200, fs)
rename_object(fs, oldrel, newrel) ==
    LET old == Norm(ServerPath(oldrel))
        new == Norm(ServerPath(newrel))
    IN IF ~Exists(fs, old) \/ ~Exists(fs, Parent(new)) THEN Resp(200, fs)
       ELSE IF old \notin DOMAIN fs \/ new \notin DOMAIN fs \/ ~IsDir(fs, Parent(new))
       THEN Resp(403, fs)
       ELSE IF old = new THEN Resp(200, fs)
       ELSE IF IsFile(fs, old)
       THEN IF IsDir(fs, new) THEN Resp(403, fs) ELSE Resp(200, MoveTree(fs, old, new))
       ELSE IF IsFile(fs, new) \/ Children(fs, new) # {} \/ IsPrefix(old, new)
       THEN Resp(403, fs)
       ELSE Resp(200, MoveTree(fs, old, new))

\* ------------------------------------------------------------ client state
VARIABLES
    src,         \* the source tree (the client's file system)
    dst,         \* the destination tree (the server's file system)
    blocksize,   \* the server's args.blocksize
    api,         \* the newest API the server has routes for: "v1.1", or "v1.0" for an older
                 \* server; "down" while no server can be reached
    updatedict,  \* self.updatedict, in insertion order
    queue,       \* events the watcher has emitted and no handler has taken yet
    th,          \* the two threads: program counter and locals
    now,         \* time.time(), in units of POLL_TIME
    observing,   \* observer.start() has run
    stamp,       \* the last mtime the source file system gave out
    ops,         \* user operations so far
    faults,      \* requests that may still fail in transit or on the server's disk
    hist         \* what the properties below need remembered

vars == <<src, dst, blocksize, api, updatedict, queue, th, now, observing, stamp, ops, faults, hist>>

Threads == {"obs", "main"}

\* --- self.updatedict: a dict keeps insertion order; an entry is
\* {'LastUpdated': time, 'PendingUpdate': bool} under the file's local path.
Entry(name, t, pending) == [name |-> name, LastUpdated |-> t, PendingUpdate |-> pending]
Has(d, k) == \E i \in 1..Len(d) : d[i].name = k
Index(d, k) == CHOOSE i \in 1..Len(d) : d[i].name = k
Get(d, k) == d[Index(d, k)]
Set(d, k, t, pending) ==
    IF Has(d, k) THEN [d EXCEPT ![Index(d, k)] = Entry(k, t, pending)]
    ELSE Append(d, Entry(k, t, pending))
Del(d, k) == SubSeq(d, 1, Index(d, k) - 1) \o SubSeq(d, Index(d, k) + 1, Len(d))
Keys(d) == [i \in 1..Len(d) |-> d[i].name]

\* --- events of watchdog: src_path and dest_path are absolute.
Event(type, p, q, isdir) == [type |-> type, src_path |-> p, dest_path |-> q, is_directory |-> isdir]
NoEvent == Event("none", <<>>, <<>>, FALSE)

\* --- requests as the client sends them (the log keeps the answer too).
Req(op, path) ==
    [op |-> op, path |-> path, offset |-> 0, body |-> <<>>, hasSize |-> FALSE, filesize |-> 0,
     times |-> FALSE, mtime |-> 0, newname |-> <<>>, status |-> 0]

NoInfo == [Blocksize |-> 0, Checksums |-> <<>>]

\* --- a thread: pc, the event or work in hand, copy_file's locals.
IdleThread(pc) ==
    [pc |-> pc, ev |-> NoEvent, names |-> <<>>, work |-> <<>>, wake |-> 0,
     localfile |-> <<>>, remotefile |-> <<>>, ret |-> "",
     info |-> NoInfo, block |-> 0, lastsent |-> FALSE, fpos |-> 0,
     fd |-> "closed", orphan |-> <<>>, stat |-> 0, sent |-> <<>>]

\* A thread that begins a new piece of work forgets the locals of the last.
Fresh(t, pc) == [IdleThread(pc) EXCEPT !.wake = th[t].wake, !.names = th[t].names,
                                      !.work = th[t].work, !.ev = th[t].ev]

\* An exception leaves the handler (observer thread) or the function (main
\* thread); "with open" closes the file on the way out.
Raised(rec) == [rec EXCEPT !.pc = "raised", !.fd = "closed", !.orphan = <<>>]

\* --- what is remembered for the properties: times of the successful
\* copyblock/copyfile requests, completion times of the uploads, when the
\* last Modified event of a file was emitted, whether a request failed; which
\* run of the client this is, how many uploads were completed before it
\* started, and the files whose entry had PendingUpdate set when the last run
\* was stopped; the files for which a Modified event was recorded in the
\* buffer while the poll loop was at their entry, and no upload has started
\* since.
NoHist ==
    [reqAt |-> <<>>, ups |-> <<>>, starts |-> <<>>, lastEv |-> [p \in LocalPaths |-> -1],
     failed |-> FALSE, last |-> Req("none", <<>>), prior |-> Absent, owed |-> FALSE,
     run |-> 1, base |-> 0, deferred |-> {}, during |-> {}]

\* When the last upload of a file completed (-1: never).
Dones(name) == SelectSeq(hist.ups, LAMBDA u : u.name = name)
LastDone(name) == IF Dones(name) = <<>> THEN -1 ELSE Dones(name)[Len(Dones(name))].at

\* The log of a thread and the history after a request got its answer.
Logged(rec, req, st) == [rec EXCEPT !.sent = Append(@, [req EXCEPT !.status = st])]
Noted(h, req, st) ==
    [h EXCEPT !.failed = @ \/ st \notin {200, 404, 410},
              !.last = [req EXCEPT !.status = st],
              !.reqAt = IF req.op \in {"copyblock", "copyfile"} /\ st = 200
                        THEN Append(@, now) ELSE @]

\* A request may be lost or hit a server I/O error while faults remain: the
\* answer is then 403 and the destination is as before.
Outcomes == IF faults > 0 THEN {TRUE, FALSE} ELSE {TRUE}

\* ------------------------------------------------------ client: copy_file
\* copy_file(localfile, remotefile), entered from on_modified, the poll loop
\* or sync_directory; ret is where the caller goes on.
Call(rec, localfile, remotefile, ret) ==
    [rec EXCEPT !.pc = "cf_sums", !.localfile = localfile, !.remotefile = remotefile,
                !.ret = ret, !.info = NoInfo, !.block = 0, !.lastsent = FALSE, !.fpos = 0,
                !.fd = "closed", !.orphan = <<>>, !.stat = 0]

\* line 203: elif response.status_code == 404
IsFallback_Mutant(st) == st # 200
IsFallback(st) == st = 404

\* GET filesums: the server's block size and the digests of its blocks; a
\* server without the v1.1 routes answers 404.
CfSums(t) ==
    /\ th[t].pc = "cf_sums"
    /\ \E ok \in Outcomes :
        LET req == Req("filesums", Quote(th[t].remotefile))
            r == file_sums(dst, req.path, blocksize)
            st == IF ~ok THEN 403 ELSE IF api = "v1.0" THEN 404 ELSE r.status
        IN /\ th' = [th EXCEPT ![t] =
                        IF st = 200
                        THEN Logged([@ EXCEPT !.pc = "cf_read",
                                              !.info = [Blocksize |-> r.Blocksize,
                                                        Checksums |-> r.Checksums]], req, st)
                        ELSE IF IsFallback(st)
                        THEN Logged([@ EXCEPT !.pc = "cf_stat"], req, st)
                        ELSE Raised(Logged(@, req, st))]
           /\ faults' = IF ok THEN faults ELSE faults - 1
           /\ hist' = [Noted(hist, req, st) EXCEPT
                          !.starts = Append(@, [name |-> th[t].localfile, at |-> now,
                                                buffered |-> Has(updatedict, th[t].localfile),
                                                since |-> LastDone(th[t].localfile)]),
                          !.owed = FALSE,
                          !.during = @ \ {th[t].localfile}]
    /\ UNCHANGED <<src, dst, blocksize, api, updatedict, queue, now, observing, stamp, ops>>

\* What the open file yields: the file at the path, the unlinked file the
\* descriptor still holds, or the file under the name it was moved to.
Content(rec) ==
    IF rec.fd = "orphan" THEN rec.orphan
    ELSE IF rec.fd = "moved" THEN Node(src, rec.orphan).data
    ELSE Node(src, rec.localfile).data

\* lines 189-190, 198-199: if not response.ok: raise_for_status(); ok is a
\* status below 400.
Ok_Mutant(st) == TRUE
Ok(st) == st < 400

\* line 172: short block indicates last
IsLast_Mutant(data, bs) == Len(data) <= bs
IsLast(data, bs) == Len(data) < bs

\* lines 178-179: larger than the remote file, or the checksum does not match
Differs_Mutant(info, block, data) == TRUE
Differs(info, block, data) ==
    \/ block >= Len(info.Checksums)
    \/ Sha1(data) # info.Checksums[block + 1]

\* One turn of the read loop: read a block; at EOF leave the loop; else send
\* the block when the server has no such block or another digest.
CfRead(t) ==
    /\ th[t].pc = "cf_read"
    /\ LET me == th[t]
           bs == me.info.Blocksize
           opened == IF me.fd = "closed" THEN [me EXCEPT !.fd = "open", !.fpos = 0] ELSE me
           all == Content(opened)
           data == SubSeq(all, opened.fpos + 1, Min(opened.fpos + bs, Len(all)))
           last == IsLast(data, bs)
           differs == Differs(me.info, me.block, data)
           base == [Req("copyblock", Quote(me.remotefile)) EXCEPT
                       !.offset = me.block * bs, !.body = data]
           req == IF last
                  THEN [base EXCEPT !.hasSize = TRUE,
                                    !.filesize = Len(Node(src, me.localfile).data),
                                    !.times = TRUE,
                                    !.mtime = Node(src, me.localfile).mtime]
                  ELSE base
           advanced == [opened EXCEPT !.block = @ + 1, !.fpos = @ + Len(data),
                                      !.lastsent = @ \/ (differs /\ last)]
       IN IF me.fd = "closed" /\ ~IsFile(src, me.localfile)
          THEN \* open() raises
               /\ th' = [th EXCEPT ![t] = Raised(@)]
               /\ UNCHANGED <<dst, faults, hist>>
          ELSE IF data = <<>>
          THEN /\ th' = [th EXCEPT ![t] = [opened EXCEPT !.pc = "cf_final", !.fd = "closed",
                                                          !.orphan = <<>>]]
               /\ UNCHANGED <<dst, faults, hist>>
          ELSE IF ~differs
          THEN /\ th' = [th EXCEPT ![t] = advanced]
               /\ UNCHANGED <<dst, faults, hist>>
          ELSE IF last /\ ~IsFile(src, me.localfile)
          THEN \* os.stat() raises
               /\ th' = [th EXCEPT ![t] = Raised(@)]
               /\ UNCHANGED <<dst, faults, hist>>
          ELSE \E ok \in Outcomes :
                LET r == copy_block(dst, req.path, req.offset, req.body, req.hasSize,
                                    req.filesize, req.times, req.mtime)
                    st == IF ok THEN r.status ELSE 403
                IN /\ dst' = IF ok THEN r.fs ELSE dst
                   /\ faults' = IF ok THEN faults ELSE faults - 1
                   /\ hist' = Noted(hist, req, st)
                   /\ th' = [th EXCEPT ![t] = IF Ok(st) THEN Logged(advanced, req, st)
                                              ELSE Raised(Logged(@, req, st))]
    /\ UNCHANGED <<src, blocksize, api, updatedict, queue, now, observing, stamp, ops>>

\* After the loop: when no block carried the file information, one bodyless
\* copyblock at offset block*blocksize carries it.  Then copy_file returns.
CfFinal(t) ==
    /\ th[t].pc = "cf_final"
    /\ LET me == th[t]
           req == [Req("copyblock", Quote(me.remotefile)) EXCEPT
                      !.offset = me.block * me.info.Blocksize,
                      !.hasSize = TRUE, !.filesize = Len(Node(src, me.localfile).data),
                      !.times = TRUE, !.mtime = Node(src, me.localfile).mtime]
           done == [hist EXCEPT !.ups = Append(@, [name |-> me.localfile, at |-> now, by |-> me.ret])]
       IN IF me.lastsent
          THEN /\ th' = [th EXCEPT ![t] = [@ EXCEPT !.pc = me.ret]]
               /\ hist' = done
               /\ UNCHANGED <<dst, faults>>
          ELSE IF ~IsFile(src, me.localfile)
          THEN \* os.stat() raises
               /\ th' = [th EXCEPT ![t] = Raised(@)]
               /\ UNCHANGED <<dst, faults, hist>>
          ELSE \E ok \in Outcomes :
                LET r == copy_block(dst, req.path, req.offset, req.body, req.hasSize,
                                    req.filesize, req.times, req.mtime)
                    st == IF ok THEN r.status ELSE 403
                IN /\ dst' = IF ok THEN r.fs ELSE dst
                   /\ faults' = IF ok THEN faults ELSE faults - 1
                   /\ hist' = IF Ok(st) THEN Noted(done, req, st) ELSE Noted(hist, req, st)
                   /\ th' = [th EXCEPT ![t] = IF Ok(st)
                                              THEN Logged([@ EXCEPT !.pc = me.ret], req, st)
                                              ELSE Raised(Logged(@, req, st))]
    /\ UNCHANGED <<src, blocksize, api, updatedict, queue, now, observing, stamp, ops>>

\* The v1.0 fallback, line 206: localstat = os.stat(localfile)
CfStat(t) ==
    /\ th[t].pc = "cf_stat"
    /\ th' = [th EXCEPT ![t] =
                IF IsFile(src, th[t].localfile)
                THEN [@ EXCEPT !.pc = "cf_copyfile", !.stat = Node(src, th[t].localfile).mtime]
                ELSE Raised(@)]
    /\ UNCHANGED <<src, dst, blocksize, api, updatedict, queue, now, observing, stamp, ops, faults, hist>>

\* lines 207-217: the whole file is read and sent in one copyfile request
\* with the times of localstat; any failure raises.
CfCopyFile(t) ==
    /\ th[t].pc = "cf_copyfile"
    /\ LET me == th[t]
           req == [Req("copyfile", Quote(me.remotefile)) EXCEPT
                      !.body = Node(src, me.localfile).data,
                      !.times = TRUE, !.mtime = me.stat]
           done == [hist EXCEPT !.ups = Append(@, [name |-> me.localfile, at |-> now, by |-> me.ret])]
       IN IF ~IsFile(src, me.localfile)
          THEN \* open() raises
               /\ th' = [th EXCEPT ![t] = Raised(@)]
               /\ UNCHANGED <<dst, faults, hist>>
          ELSE \E ok \in Outcomes :
                LET r == copy_file(dst, req.path, req.body, req.times, req.mtime)
                    st == IF ok THEN r.status ELSE 403
                IN /\ dst' = IF ok THEN r.fs ELSE dst
                   /\ faults' = IF ok THEN faults ELSE faults - 1
                   /\ hist' = IF st = 200 THEN Noted(done, req, st) ELSE Noted(hist, req, st)
                   /\ th' = [th EXCEPT ![t] = IF st = 200
                                              THEN Logged([@ EXCEPT !.pc = me.ret], req, st)
                                              ELSE Raised(Logged(@, req, st))]
    /\ UNCHANGED <<src, blocksize, api, updatedict, queue, now, observing, stamp, ops>>

\* ------------------------------------------------ client: sync_directory
\* os.walk(self.directory), top down: for each directory its subdirectories,
\* then its files, then the same below each subdirectory.
Listing ==
    <<SrcRoot \o <<"d">>, SrcRoot \o <<"e">>, SrcRoot \o <<"f 1">>, SrcRoot \o <<"h">>,
      SrcRoot \o <<"d", "g">>, SrcRoot \o <<"e", "g">>>>
WalkList(fs) == SelectSeq(Listing, LAMBDA p : Exists(fs, p))

\* os.path.join(os.path.relpath(root, self.directory), name)
Remote(p) == Join(RelPath(Parent(p), SrcRoot), <<p[Len(p)]>>)

\* check_file, lines 137-142: os.stat_result(data) of the JSON array has the
\* whole seconds as st_mtime; the local st_mtime is a float.
CheckSame_Mutant(r, local) == r.size = Len(local.data)
CheckSame(r, local) ==
    /\ r.size = Len(local.data)
    /\ r.mtime * Subsec = local.mtime

\* One entry of the walk: dir_exists for a directory, check_file for a file;
\* a directory that exists and a file that is the same are passed over, a
\* file that is not goes to copy_file.
SyncStep ==
    /\ th["main"].pc = "sync"
    /\ LET me == th["main"]
           p == Head(me.work)
       IN IF me.work = <<>>
          THEN /\ th' = [th EXCEPT !["main"] = [@ EXCEPT !.pc = "sync_done"]]
               /\ UNCHANGED <<faults, hist>>
          ELSE IF IsDir(src, p)
          THEN \E ok \in Outcomes :
                LET req == Req("direxists", Quote(Remote(p)))
                    st == IF ok THEN dir_exists(dst, req.path).status ELSE 403
                IN /\ th' = [th EXCEPT !["main"] =
                                IF st = 200 THEN Logged([@ EXCEPT !.work = Tail(@)], req, st)
                                ELSE IF st = 410 THEN Logged([@ EXCEPT !.pc = "sync_mkdir"], req, st)
                                ELSE Raised(Logged(@, req, st))]
                   /\ faults' = IF ok THEN faults ELSE faults - 1
                   /\ hist' = Noted(hist, req, st)
          ELSE \E ok \in Outcomes :
                LET r == check_file(dst, Quote(Remote(p)))
                    st == IF ok THEN r.status ELSE 403
                    req == [Req("checkfile", Quote(Remote(p))) EXCEPT
                               !.filesize = r.size, !.mtime = r.mtime]
                    next == [me EXCEPT !.work = Tail(@)]
                IN /\ th' = [th EXCEPT !["main"] =
                                IF st = 200 /\ ~IsFile(src, p) THEN Raised(Logged(@, req, st))
                                ELSE IF st = 200 /\ CheckSame(r, Node(src, p))
                                THEN Logged(next, req, st)
                                ELSE IF st \in {200, 410}
                                THEN Logged(Call(next, p, Remote(p), "sync"), req, st)
                                ELSE Raised(Logged(@, req, st))]
                   /\ faults' = IF ok THEN faults ELSE faults - 1
                   /\ hist' = Noted(hist, req, st)
    /\ UNCHANGED <<src, dst, blocksize, api, updatedict, queue, now, observing, stamp, ops>>

\* line 255: self.create_dir(remotedir)
SyncMkdir ==
    /\ th["main"].pc = "sync_mkdir"
    /\ \E ok \in Outcomes :
        LET req == Req("createdir", Quote(Remote(Head(th["main"].work))))
            r == create_dir(dst, req.path)
            st == IF ok THEN r.status ELSE 403
        IN /\ dst' = IF ok THEN r.fs ELSE dst
           /\ th' = [th EXCEPT !["main"] =
                        IF st = 200 THEN Logged([@ EXCEPT !.pc = "sync", !.work = Tail(@)], req, st)
                        ELSE Raised(Logged(@, req, st))]
           /\ faults' = IF ok THEN faults ELSE faults - 1
           /\ hist' = Noted(hist, req, st)
    /\ UNCHANGED <<src, blocksize, api, updatedict, queue, now, observing, stamp, ops>>

\* ------------------------------------------------- client: event handlers
\* The observer thread takes the next event and enters its handler, up to
\* the handler's first use of the dictionary or of the server.
\*   on_created:  a file is ignored; a directory goes to create_dir.
\*   on_modified: a directory is ignored; a file goes to the membership test.
\*   on_deleted:  goes to the membership test.
\*   on_moved:    goes to its request.

Handler_Mutant(ev) ==
    CASE ev.type = "created" -> "crt_req"
      [] ev.type = "deleted" -> "del_test"
      [] ev.type = "modified" -> IF ev.is_directory THEN "idle" ELSE "mod_test"
      [] ev.type = "moved" -> "mov_req"
Handler(ev) ==
    CASE ev.type = "created" -> IF ev.is_directory THEN "crt_req" ELSE "idle"
      [] ev.type = "deleted" -> "del_test"
      [] ev.type = "modified" -> IF ev.is_directory THEN "idle" ELSE "mod_test"
      [] ev.type = "moved" -> "mov_req"

Dispatch ==
    /\ th["obs"].pc = "idle"
    /\ observing
    /\ queue # <<>>
    /\ LET ev == Head(queue)
       IN th' = [th EXCEPT !["obs"] = [IdleThread(Handler(ev)) EXCEPT !.ev = ev]]
    /\ queue' = Tail(queue)
    /\ UNCHANGED <<src, dst, blocksize, api, updatedict, now, observing, stamp, ops, faults, hist>>

\* watch, line 286: time.time() - self.updatedict[name]['LastUpdated'] >= self.updatemax
IsDue_Mutant(entry, t) == TRUE
IsDue_Early(entry, t) == t - entry.LastUpdated >= UpdateMax - 1
IsDue_Strict(entry, t) == t - entry.LastUpdated > UpdateMax
IsDue(entry, t) == t - entry.LastUpdated >= UpdateMax

\* The poll loop is between its first read of an entry (line 286) and its
\* last write or removal of it (line 290 or 293).
InScanOfEntry ==
    \/ th["main"].pc \in {"scan_pending", "scan_set", "scan_del"}
    \/ th["main"].pc \in {"cf_sums", "cf_read", "cf_final"} /\ th["main"].ret = "scan_set"

\* on_modified, line 74: if event.src_path in self.updatedict
OnModifiedTest ==
    /\ th["obs"].pc = "mod_test"
    /\ th' = [th EXCEPT !["obs"] =
                IF Has(updatedict, @.ev.src_path) THEN [@ EXCEPT !.pc = "mod_set"]
                ELSE Call(@, @.ev.src_path, RelPath(@.ev.src_path, SrcRoot), "mod_insert")]
    /\ UNCHANGED <<src, dst, blocksize, api, updatedict, queue, now, observing, stamp, ops, faults, hist>>

\* line 75: self.updatedict[src_path]['PendingUpdate'] = True (KeyError when
\* the entry has gone since the test)
OnModifiedSet ==
    /\ th["obs"].pc = "mod_set"
    /\ LET k == th["obs"].ev.src_path
       IN IF Has(updatedict, k)
          THEN /\ updatedict' = Set(updatedict, k, Get(updatedict, k).LastUpdated, TRUE)
               /\ th' = [th EXCEPT !["obs"] = [@ EXCEPT !.pc = "idle"]]
               /\ hist' = [hist EXCEPT
                              !.owed = @ \/ ~IsDue(Get(updatedict, k), now),
                              !.during = IF InScanOfEntry /\ Head(th["main"].names) = k
                                         THEN @ \cup {k} ELSE @]
          ELSE /\ UNCHANGED <<updatedict, hist>>
               /\ th' = [th EXCEPT !["obs"] = Raised(@)]
    /\ UNCHANGED <<src, dst, blocksize, api, queue, now, observing, stamp, ops, faults>>

\* line 78, after copy_file returned:
\* self.updatedict[src_path] = {'LastUpdated': time.time(), 'PendingUpdate': False}
OnModifiedInsert ==
    /\ th["obs"].pc = "mod_insert"
    /\ updatedict' = Set(updatedict, th["obs"].ev.src_path, now, FALSE)
    /\ th' = [th EXCEPT !["obs"] = [@ EXCEPT !.pc = "idle"]]
    /\ UNCHANGED <<src, dst, blocksize, api, queue, now, observing, stamp, ops, faults, hist>>

\* on_created, line 52: self.create_dir(relpath(event.src_path))
OnCreatedReq ==
    /\ th["obs"].pc = "crt_req"
    /\ \E ok \in Outcomes :
        LET req == Req("createdir", Quote(RelPath(th["obs"].ev.src_path, SrcRoot)))
            r == create_dir(dst, req.path)
            st == IF ok THEN r.status ELSE 403
        IN /\ dst' = IF ok THEN r.fs ELSE dst
           /\ th' = [th EXCEPT !["obs"] = IF st = 200 THEN Logged([@ EXCEPT !.pc = "idle"], req, st)
                                          ELSE Raised(Logged(@, req, st))]
           /\ faults' = IF ok THEN faults ELSE faults - 1
           /\ hist' = Noted(hist, req, st)
    /\ UNCHANGED <<src, blocksize, api, updatedict, queue, now, observing, stamp, ops>>

\* on_deleted, line 61: if event.src_path in self.updatedict
OnDeletedTest ==
    /\ th["obs"].pc = "del_test"
    /\ th' = [th EXCEPT !["obs"] =
                [@ EXCEPT !.pc = IF Has(updatedict, th["obs"].ev.src_path) THEN "del_del" ELSE "del_req"]]
    /\ UNCHANGED <<src, dst, blocksize, api, updatedict, queue, now, observing, stamp, ops, faults, hist>>

\* line 63: del self.updatedict[event.src_path] (KeyError when the entry has
\* gone since the test)
OnDeletedDel ==
    /\ th["obs"].pc = "del_del"
    /\ LET k == th["obs"].ev.src_path
       IN IF Has(updatedict, k)
          THEN /\ updatedict' = Del(updatedict, k)
               /\ th' = [th EXCEPT !["obs"] = [@ EXCEPT !.pc = "del_req"]]
          ELSE /\ UNCHANGED updatedict
               /\ th' = [th EXCEPT !["obs"] = Raised(@)]
    /\ UNCHANGED <<src, dst, blocksize, api, queue, now, observing, stamp, ops, faults, hist>>

\* line 64: self.delete_object(relpath(event.src_path))
OnDeletedReq ==
    /\ th["obs"].pc = "del_req"
    /\ \E ok \in Outcomes :
        LET req == Req("deleteobject", Quote(RelPath(th["obs"].ev.src_path, SrcRoot)))
            r == delete_object(dst, req.path)
            st == IF ok THEN r.status ELSE 403
        IN /\ dst' = IF ok THEN r.fs ELSE dst
           /\ th' = [th EXCEPT !["obs"] = IF st = 200 THEN Logged([@ EXCEPT !.pc = "idle"], req, st)
                                          ELSE Raised(Logged(@, req, st))]
           /\ faults' = IF ok THEN faults ELSE faults - 1
           /\ hist' = Noted(hist, req, st)
    /\ UNCHANGED <<src, blocksize, api, updatedict, queue, now, observing, stamp, ops>>

\* on_moved, line 88: os.path.commonprefix([event.src_path, self.directory])
\* compares character by character.
\* The directory is /src; of the first segments that occur, "src" and "src2"
\* begin with its characters.
CommonPrefixIsRoot(p) == p # <<>> /\ p[1] \in {"src", "src2"}

\* lines 88-93: delete_object(relpath(src_path)) when the common prefix is
\* not the directory, else rename_object(relpath(src_path), relpath(dest_path)).
OnMovedReq ==
    /\ th["obs"].pc = "mov_req"
    /\ \E ok \in Outcomes :
        LET ev == th["obs"].ev
            inside == CommonPrefixIsRoot(ev.src_path)
            req == IF inside
                   THEN [Req("renameobject", Quote(RelPath(ev.src_path, SrcRoot))) EXCEPT
                            !.newname = Quote(RelPath(ev.dest_path, SrcRoot))]
                   ELSE Req("deleteobject", Quote(RelPath(ev.src_path, SrcRoot)))
            r == IF inside THEN rename_object(dst, req.path, req.newname)
                 ELSE delete_object(dst, req.path)
            st == IF ok THEN r.status ELSE 403
        IN /\ dst' = IF ok THEN r.fs ELSE dst
           /\ th' = [th EXCEPT !["obs"] =
                        IF st # 200 THEN Raised(Logged(@, req, st))
                        ELSE Logged([@ EXCEPT !.pc = IF inside THEN "mov_test" ELSE "idle"], req, st)]
           /\ faults' = IF ok THEN faults ELSE faults - 1
           /\ hist' = Noted(hist, req, st)
    /\ UNCHANGED <<src, blocksize, api, updatedict, queue, now, observing, stamp, ops>>

\* line 95: if event.src_path in self.updatedict
OnMovedTest ==
    /\ th["obs"].pc = "mov_test"
    /\ th' = [th EXCEPT !["obs"] =
                [@ EXCEPT !.pc = IF Has(updatedict, th["obs"].ev.src_path) THEN "mov_assign" ELSE "idle"]]
    /\ UNCHANGED <<src, dst, blocksize, api, updatedict, queue, now, observing, stamp, ops, faults, hist>>

\* line 96: self.updatedict[event.dest_path] = self.updatedict[event.src_path]
OnMovedAssign ==
    /\ th["obs"].pc = "mov_assign"
    /\ LET ev == th["obs"].ev
       IN IF Has(updatedict, ev.src_path)
          THEN /\ updatedict' = Set(updatedict, ev.dest_path,
                                    Get(updatedict, ev.src_path).LastUpdated,
                                    Get(updatedict, ev.src_path).PendingUpdate)
               /\ th' = [th EXCEPT !["obs"] = [@ EXCEPT !.pc = "mov_del"]]
          ELSE /\ UNCHANGED updatedict
               /\ th' = [th EXCEPT !["obs"] = Raised(@)]
    /\ UNCHANGED <<src, dst, blocksize, api, queue, now, observing, stamp, ops, faults, hist>>

\* line 97: del self.updatedict[event.src_path]
OnMovedDel ==
    /\ th["obs"].pc = "mov_del"
    /\ LET k == th["obs"].ev.src_path
       IN IF Has(updatedict, k)
          THEN /\ updatedict' = Del(updatedict, k)
               /\ th' = [th EXCEPT !["obs"] = [@ EXCEPT !.pc = "idle"]]
          ELSE /\ UNCHANGED updatedict
               /\ th' = [th EXCEPT !["obs"] = Raised(@)]
    /\ UNCHANGED <<src, dst, blocksize, api, queue, now, observing, stamp, ops, faults, hist>>

\* A handler that raised: the observer thread may take the next event.
ObsResume ==
    /\ th["obs"].pc = "raised"
    /\ th' = [th EXCEPT !["obs"] = [@ EXCEPT !.pc = "idle"]]
    /\ UNCHANGED <<src, dst, blocksize, api, updatedict, queue, now, observing, stamp, ops, faults, hist>>

\* ------------------------------------------------------ client: poll loop
\* watch(): time.sleep(POLL_TIME), then for name in list(self.updatedict).
PollWake ==
    /\ th["main"].pc = "sleep"
    /\ now >= th["main"].wake
    /\ th' = [th EXCEPT !["main"] = [IdleThread("scan") EXCEPT !.names = Keys(updatedict)]]
    /\ UNCHANGED <<src, dst, blocksize, api, updatedict, queue, now, observing, stamp, ops, faults, hist>>

\* The due test of line 286 (KeyError when the entry has gone since the list was taken); at the end of
\* the list the loop sleeps again.
PollDue ==
    /\ th["main"].pc = "scan"
    /\ LET me == th["main"]
       IN IF me.names = <<>>
          THEN th' = [th EXCEPT !["main"] = [@ EXCEPT !.pc = "sleep", !.wake = now + POLL_TIME]]
          ELSE IF ~Has(updatedict, Head(me.names))
          THEN th' = [th EXCEPT !["main"] = Raised(@)]
          ELSE IF IsDue(Get(updatedict, Head(me.names)), now)
          THEN th' = [th EXCEPT !["main"] = [@ EXCEPT !.pc = "scan_pending"]]
          ELSE th' = [th EXCEPT !["main"] = [@ EXCEPT !.names = Tail(@)]]
    /\ UNCHANGED <<src, dst, blocksize, api, updatedict, queue, now, observing, stamp, ops, faults, hist>>

\* line 287: if self.updatedict[name]['PendingUpdate']; then copy_file, else
\* on to the del.
PollPending ==
    /\ th["main"].pc = "scan_pending"
    /\ LET name == Head(th["main"].names)
       IN th' = [th EXCEPT !["main"] =
                    IF ~Has(updatedict, name) THEN Raised(@)
                    ELSE IF Get(updatedict, name).PendingUpdate
                    THEN Call(@, name, RelPath(name, SrcRoot), "scan_set")
                    ELSE [@ EXCEPT !.pc = "scan_del"]]
    /\ UNCHANGED <<src, dst, blocksize, api, updatedict, queue, now, observing, stamp, ops, faults, hist>>

\* line 290: self.updatedict[name] = {'LastUpdated': time.time(), 'PendingUpdate': False}
PollSet ==
    /\ th["main"].pc = "scan_set"
    /\ updatedict' = Set(updatedict, Head(th["main"].names), now, FALSE)
    /\ th' = [th EXCEPT !["main"] = [@ EXCEPT !.pc = "scan", !.names = Tail(@)]]
    /\ UNCHANGED <<src, dst, blocksize, api, queue, now, observing, stamp, ops, faults, hist>>

\* line 293: del self.updatedict[name]
PollDel ==
    /\ th["main"].pc = "scan_del"
    /\ LET name == Head(th["main"].names)
       IN IF Has(updatedict, name)
          THEN /\ updatedict' = Del(updatedict, name)
               /\ th' = [th EXCEPT !["main"] = [@ EXCEPT !.pc = "scan", !.names = Tail(@)]]
          ELSE /\ UNCHANGED updatedict
               /\ th' = [th EXCEPT !["main"] = Raised(@)]
    /\ UNCHANGED <<src, dst, blocksize, api, queue, now, observing, stamp, ops, faults, hist>>

\* ------------------------------------------ client: startup and shutdown
\* The statuses a probe of the base API URL may be answered with: server.py
\* has no route for it and answers 404; another server may answer otherwise.
ProbeAnswers == {200, 404, 500}

\* wait_for_server, lines 267-269: proceed after any response
EndsWait_Mutant(st) == st = 200
EndsWait(st) == TRUE

\* One turn of the loop of wait_for_server: requests.get on the base URL.
\* With no server to reach it raises ConnectionError and the loop sleeps a
\* second; a response ends the loop and __main__ enters sync_directory.
WaitProbe ==
    /\ th["main"].pc = "wait"
    /\ IF api = "down"
       THEN /\ now < MaxTime
            /\ th' = [th EXCEPT !["main"] = [@ EXCEPT !.pc = "wait_sleep", !.wake = now + 1]]
       ELSE \E st \in ProbeAnswers :
                th' = [th EXCEPT !["main"] =
                          IF EndsWait(st)
                          THEN Logged([@ EXCEPT !.pc = "sync", !.work = WalkList(src)],
                                      Req("probe", <<>>), st)
                          ELSE [@ EXCEPT !.pc = "wait_sleep", !.wake = now + 1]]
    /\ UNCHANGED <<src, dst, blocksize, api, updatedict, queue, now, observing, stamp, ops, faults, hist>>

\* line 271: time.sleep(1) is over
WaitSleep ==
    /\ th["main"].pc = "wait_sleep"
    /\ now >= th["main"].wake
    /\ th' = [th EXCEPT !["main"] = [@ EXCEPT !.pc = "wait"]]
    /\ UNCHANGED <<src, dst, blocksize, api, updatedict, queue, now, observing, stamp, ops, faults, hist>>

\* The server is started (server.py line 254) and stays up.
ServerStart ==
    /\ api = "down"
    /\ api' = "v1.1"
    /\ UNCHANGED <<src, dst, blocksize, updatedict, queue, th, now, observing, stamp, ops, faults, hist>>

\* watch, lines 274-281: sync_directory has returned; the observer is
\* started and the poll loop sleeps for the first time.
WatchStart ==
    /\ th["main"].pc = "sync_done"
    /\ observing' = TRUE
    /\ th' = [th EXCEPT !["main"] = [IdleThread("sleep") EXCEPT !.wake = now + POLL_TIME]]
    /\ UNCHANGED <<src, dst, blocksize, api, updatedict, queue, now, stamp, ops, faults, hist>>

\* Where the main thread is inside the try block of watch().
InPollLoop(rec) ==
    \/ rec.pc \in {"sleep", "scan", "scan_pending", "scan_set", "scan_del"}
    \/ rec.pc \in {"cf_sums", "cf_read", "cf_final", "cf_stat", "cf_copyfile"} /\ rec.ret = "scan_set"

\* lines 294-296: KeyboardInterrupt reaches the main thread in the poll loop,
\* whatever it is doing; observer.stop() lets the observer thread finish the
\* handler it is in and take no further event.  Nothing looks at updatedict.
Stop ==
    /\ observing
    /\ InPollLoop(th["main"])
    /\ observing' = FALSE
    /\ th' = [th EXCEPT !["main"] = [Raised(@) EXCEPT !.pc = "join"]]
    /\ hist' = [hist EXCEPT !.deferred = {updatedict[i].name : i \in
                                            {j \in 1..Len(updatedict) : updatedict[j].PendingUpdate}}]
    /\ UNCHANGED <<src, dst, blocksize, api, updatedict, queue, now, stamp, ops, faults>>

\* lines 297-298 and 310-313: observer.join() returns once the observer
\* thread is out of its handler, and the process ends; a new process is
\* started later: its updatedict is empty and it begins with wait_for_server.
Rerun ==
    /\ th["main"].pc = "join"
    /\ th["obs"].pc \in {"idle", "raised"}
    /\ updatedict' = <<>>
    /\ queue' = <<>>
    /\ th' = [t \in Threads |-> IF t = "obs" THEN IdleThread("idle") ELSE IdleThread("wait")]
    /\ hist' = [hist EXCEPT !.run = @ + 1, !.base = Len(hist.ups), !.during = {}]
    /\ UNCHANGED <<src, dst, blocksize, api, now, observing, stamp, ops, faults>>

\* ---------------------------------------------------------- environment
\* What a user does to a file in place (the edits of test7): change the first
\* byte, append a byte, cut the last byte, rewrite every byte.
Flip(b) == 1 - b
Edits(data) ==
    {[i \in 1..Len(data) |-> IF i = 1 THEN Flip(data[i]) ELSE data[i]],
     [i \in 1..Len(data) |-> Flip(data[i])],
     IF Len(data) < MaxLen THEN Append(data, 1) ELSE data,
     SubSeq(data, 1, Len(data) - 1)} \ {data}

\* The watcher emits events only once observer.start() has run.
Emit(evs) == IF observing THEN queue \o evs ELSE queue

\* A write to an existing file: new content, a new mtime, a Modified event.
Write(p, d) ==
    /\ IsFile(src, p)
    /\ src' = Put(src, p, File(d, stamp + 1))
    /\ stamp' = stamp + 1
    /\ queue' = Emit(<<Event("modified", p, <<>>, FALSE)>>)
    /\ hist' = [hist EXCEPT !.lastEv[p] = now]
    /\ ops' = ops + 1
    /\ UNCHANGED <<dst, blocksize, api, updatedict, th, now, observing, faults>>

UserWrite(p) ==
    /\ ops < MaxOps
    /\ IsFile(src, p)
    /\ \E d \in Edits(src[p].data) : Write(p, d)

\* The file written anew with another character (create_file, test7).
UserRewrite(p) ==
    /\ ops < MaxWrites
    /\ IsFile(src, p)
    /\ Write(p, [i \in 1..Len(src[p].data) |-> Flip(src[p].data[i])])

\* Where an open descriptor's file is now.
Holds(rec, p) ==
    \/ rec.fd = "open" /\ rec.localfile = p
    \/ rec.fd = "moved" /\ rec.orphan = p

\* Threads after the files under p were unlinked, and after p became q.
Unlinked(p) ==
    [t \in Threads |->
        IF \E c \in LocalPaths : IsPrefix(p, c) /\ Holds(th[t], c)
        THEN [th[t] EXCEPT !.fd = "orphan", !.orphan = Content(th[t])]
        ELSE th[t]]
Renamed(p, q) ==
    [t \in Threads |->
        IF \E c \in LocalPaths : IsPrefix(p, c) /\ Holds(th[t], c)
        THEN LET c == CHOOSE c \in LocalPaths : IsPrefix(p, c) /\ Holds(th[t], c)
             IN [th[t] EXCEPT !.fd = "moved", !.orphan = q \o SubSeq(c, Len(p) + 1, Len(c))]
        ELSE th[t]]

\* The objects below a directory, in the order of Listing.
Below(fs, p) == SelectSeq(Listing, LAMBDA c : Len(c) > Len(p) /\ IsPrefix(p, c) /\ Exists(fs, c))

\* os.remove of a file (test6): a Deleted event.
UserDelete(p) ==
    /\ ops < MaxOps
    /\ IsFile(src, p)
    /\ src' = Put(src, p, Absent)
    /\ th' = Unlinked(p)
    /\ queue' = Emit(<<Event("deleted", p, <<>>, FALSE)>>)
    /\ ops' = ops + 1
    /\ UNCHANGED <<dst, blocksize, api, updatedict, now, observing, stamp, faults, hist>>

\* shutil.rmtree of a directory (test6): the contents go first, then the
\* directory, with a Deleted event for each.
UserRmtree(p) ==
    /\ ops < MaxOps
    /\ p \in LocalPaths
    /\ IsDir(src, p)
    /\ src' = [c \in DOMAIN src |-> IF IsPrefix(p, c) THEN Absent ELSE src[c]]
    /\ th' = Unlinked(p)
    /\ queue' = Emit([i \in 1..Len(Below(src, p)) |->
                         Event("deleted", Below(src, p)[i], <<>>, IsDir(src, Below(src, p)[i]))]
                     \o <<Event("deleted", p, <<>>, TRUE)>>)
    /\ ops' = ops + 1
    /\ UNCHANGED <<dst, blocksize, api, updatedict, now, observing, stamp, faults, hist>>

\* os.rename to a free name of the same kind (test8): a Moved event, and for
\* a directory a Moved event for each object below it.
UserMove(p, q) ==
    /\ ops < MaxOps
    /\ p \in LocalPaths /\ q \in LocalPaths
    /\ Exists(src, p) /\ ~Exists(src, q)
    /\ IsDir(src, Parent(q))
    /\ (SubSeq(p, Len(SrcRoot) + 1, Len(p)) \in DirRels) = (SubSeq(q, Len(SrcRoot) + 1, Len(q)) \in DirRels)
    /\ IsDir(src, p) = (SubSeq(p, Len(SrcRoot) + 1, Len(p)) \in DirRels)
    /\ src' = MoveTree(src, p, q)
    /\ th' = Renamed(p, q)
    /\ queue' = Emit(<<Event("moved", p, q, IsDir(src, p))>>
                     \o [i \in 1..Len(Below(src, p)) |->
                            Event("moved", Below(src, p)[i],
                                  q \o SubSeq(Below(src, p)[i], Len(p) + 1, Len(Below(src, p)[i])),
                                  IsDir(src, Below(src, p)[i]))])
    /\ ops' = ops + 1
    /\ UNCHANGED <<dst, blocksize, api, updatedict, now, observing, stamp, faults, hist>>

\* Paths of the client's file system outside the source directory: one in
\* another directory, one in a directory whose name begins with the source
\* directory's name.
OutsidePaths == {<<"out", "x">>, <<"src2", "x">>}

\* A Moved event for a file that left the source directory, and one for a
\* file that came into it (on_moved, lines 85-89, provides for them).
UserMoveOut(p, q) ==
    /\ ops < MaxOps
    /\ p \in LocalPaths /\ q \in OutsidePaths
    /\ IsFile(src, p)
    /\ src' = Put(src, p, Absent)
    /\ th' = Renamed(p, q)
    /\ queue' = Emit(<<Event("moved", p, q, FALSE)>>)
    /\ ops' = ops + 1
    /\ UNCHANGED <<dst, blocksize, api, updatedict, now, observing, stamp, faults, hist>>

UserMoveIn(q, p) ==
    /\ ops < MaxOps
    /\ q \in OutsidePaths /\ p \in LocalPaths
    /\ SubSeq(p, Len(SrcRoot) + 1, Len(p)) \in FileRels
    /\ ~Exists(src, p)
    /\ IsDir(src, Parent(p))
    /\ src' = Put(src, p, File(<<1>>, stamp + 1))
    /\ stamp' = stamp + 1
    /\ queue' = Emit(<<Event("moved", q, p, FALSE)>>)
    /\ ops' = ops + 1
    /\ UNCHANGED <<dst, blocksize, api, updatedict, th, now, observing, faults, hist>>

\* os.makedirs of a new directory (create_test_files): a Created event.
UserMkdir(q) ==
    /\ ops < MaxOps
    /\ q \in LocalPaths
    /\ SubSeq(q, Len(SrcRoot) + 1, Len(q)) \in DirRels
    /\ ~Exists(src, q)
    /\ src' = Put(src, q, Dir)
    /\ queue' = Emit(<<Event("created", q, <<>>, TRUE)>>)
    /\ ops' = ops + 1
    /\ UNCHANGED <<dst, blocksize, api, updatedict, th, now, observing, stamp, faults, hist>>

\* A new file written (create_file, test5): a Created event for the file, a
\* Modified event for the directory it is in, and the Modified event for
\* the file that on_created counts on.
UserCreate(q) ==
    /\ ops < MaxOps
    /\ q \in LocalPaths
    /\ SubSeq(q, Len(SrcRoot) + 1, Len(q)) \in FileRels
    /\ ~Exists(src, q)
    /\ IsDir(src, Parent(q))
    /\ src' = Put(src, q, File(<<1>>, stamp + 1))
    /\ stamp' = stamp + 1
    /\ queue' = Emit(<<Event("created", q, <<>>, FALSE),
                       Event("modified", Parent(q), <<>>, TRUE),
                       Event("modified", q, <<>>, FALSE)>>)
    /\ ops' = ops + 1
    /\ UNCHANGED <<dst, blocksize, api, updatedict, th, now, observing, faults, hist>>

\* Time passes while a thread sleeps or waits for an answer to a request; the
\* steps between the dictionary accesses of one handler take no time, and the
\* poll loop does not oversleep.
Waiting(t) ==
    \/ th[t].pc \in {"cf_sums", "cf_read", "cf_final", "cf_copyfile", "raised", "off", "join"}
    \/ t = "obs" /\ th[t].pc = "idle" /\ (queue = <<>> \/ ~observing)
    \/ t = "main" /\ th[t].pc \in {"sleep", "wait_sleep"} /\ now < th[t].wake

Tick ==
    /\ now < MaxTime
    /\ \A t \in Threads : Waiting(t)
    /\ now' = now + 1
    /\ UNCHANGED <<src, dst, blocksize, api, updatedict, queue, th, observing, stamp, ops, faults, hist>>

\* ------------------------------------------------- upload of a single file
Datas == UNION {[1..n -> Bytes] : n \in 0..MaxLen}
TheFile == SrcRoot \o <<"f 1">>
EmptySrc == [p \in LocalPaths |-> Absent]
EmptyDst == [p \in ServerPaths |-> Absent]

\* One file, any content; the destination's node for it is drawn from
\* priors; the watcher has just emitted Modified for the file.
UploadFrom(priors) ==
    /\ \E d \in Datas :
        /\ src = [EmptySrc EXCEPT ![TheFile] = File(d, 1)]
        /\ \E n \in priors :
            /\ dst = [EmptyDst EXCEPT ![DstRoot \o <<"f 1">>] = n]
            /\ hist = [NoHist EXCEPT !.prior = n]
    /\ blocksize \in 1..MaxBlock
    /\ updatedict = <<>>
    /\ queue = <<Event("modified", TheFile, <<>>, FALSE)>>
    /\ th = [t \in Threads |-> IF t = "obs" THEN IdleThread("idle") ELSE IdleThread("off")]
    /\ now = 0
    /\ observing = TRUE
    /\ stamp = 1
    /\ ops = 0
    /\ faults = 1

\* The destination has no such file, or any stale file.
AnyPrior == {Absent} \cup {File(e, 0) : e \in Datas}
InitUpload == UploadFrom(AnyPrior) /\ api = "v1.1"

NextUpload ==
    \/ Dispatch
    \/ OnModifiedTest
    \/ OnModifiedInsert
    \/ ObsResume
    \/ \E t \in Threads : CfSums(t) \/ CfRead(t) \/ CfFinal(t)

SpecUpload == InitUpload /\ [][NextUpload]_vars

\* The same, while the user goes on writing to the file.
NextUploadRace ==
    \/ NextUpload
    \/ UserWrite(TheFile)

\* The destination has no such file yet.
NoPrior == {Absent}
InitUploadRace == UploadFrom(NoPrior) /\ api = "v1.1"

SpecUploadRace == InitUploadRace /\ [][NextUploadRace]_vars

\* ------------------------------------------------- properties of an upload
TheDest == DstRoot \o <<"f 1">>
Up == th["obs"]
UploadDone == hist.ups # <<>>
SrcData == src[TheFile].data
SrcBlocks == Blocks(SrcData, blocksize)
PriorBlocks == Blocks(hist.prior.data, blocksize)
CopyBlocks(log) == SelectSeq(log, LAMBDA r : r.op = "copyblock")
Sized(log) == SelectSeq(log, LAMBDA r : r.hasSize)
Strip(log) == [i \in 1..Len(log) |-> [offset |-> log[i].offset, body |-> log[i].body]]

\* C4: when the v1.1 upload has completed without error and the source was
\* not modified meanwhile, the destination file has the source's bytes, and
\* so its size, and the source's mtime, whatever the destination held before.
C4_UploadMirrors ==
    UploadDone => dst[TheDest] = File(SrcData, src[TheFile].mtime)

\* A completed upload over a longer destination of which a block was kept.
C4_Witness ==
    /\ UploadDone
    /\ Len(hist.prior.data) > Len(SrcData)
    /\ Len(CopyBlocks(Up.sent)) < Len(SrcBlocks)
    /\ hist.prior.data # SrcData \o SubSeq(hist.prior.data, Len(SrcData) + 1, Len(hist.prior.data))

\* The blocks among the first k local blocks that the server lacks or holds
\* with another digest: index i (from 1) is block i-1 of the code.
RECURSIVE Needed(_)
Needed(k) ==
    IF k = 0 THEN <<>>
    ELSE IF k > Len(PriorBlocks) \/ Sha1(SrcBlocks[k]) # Sha1(PriorBlocks[k])
    THEN Append(Needed(k - 1), [offset |-> (k - 1) * blocksize, body |-> SrcBlocks[k]])
    ELSE Needed(k - 1)

\* C9: in an upload none of whose requests failed, the data blocks sent so far
\* are exactly the blocks read so far that are beyond the remote checksum
\* vector or differ from it, each once, at offset i*B; at most one request
\* carries filesize and the times and none follows it; a completed upload has
\* exactly one such request: the short final block when it was sent, else a
\* bodyless copyblock.
C9_BlocksAndCommit ==
    (Up.info # NoInfo /\ ~hist.failed) =>
        LET cb == CopyBlocks(Up.sent)
            datas == SelectSeq(cb, LAMBDA r : r.body # <<>>)
            sized == Sized(cb)
            shortSent == /\ SrcBlocks # <<>>
                         /\ Len(SrcBlocks[Len(SrcBlocks)]) < blocksize
                         /\ Needed(Len(SrcBlocks)) # Needed(Len(SrcBlocks) - 1)
        IN /\ Strip(datas) = Needed(Up.block)
           /\ Len(sized) <= 1
           /\ Len(sized) = 1 => /\ cb[Len(cb)].hasSize
                                /\ cb[Len(cb)].times
                                /\ cb[Len(cb)].filesize = Len(SrcData)
                                /\ cb[Len(cb)].mtime = src[TheFile].mtime
           /\ UploadDone =>
                /\ Len(sized) = 1
                /\ Up.block = Len(SrcBlocks)
                /\ IF shortSent
                   THEN cb[Len(cb)].body = SrcBlocks[Len(SrcBlocks)]
                   ELSE cb[Len(cb)].body = <<>> /\ cb[Len(cb)].offset = Len(SrcBlocks) * blocksize

\* A completed upload that skipped a block, sent a block, and committed with a
\* bodyless request.
C9_Witness ==
    /\ UploadDone
    /\ ~hist.failed
    /\ Len(Needed(Len(SrcBlocks))) \in 1..(Len(SrcBlocks) - 1)
    /\ CopyBlocks(Up.sent)[Len(CopyBlocks(Up.sent))].body = <<>>

\* The case of C10: the source is a whole number of blocks, at least two, the
\* destination had the same length, and only the first block differed.
OnlyFirstBlockDiffers ==
    /\ Len(SrcBlocks) >= 2
    /\ Len(SrcData) = Len(SrcBlocks) * blocksize
    /\ hist.prior.kind = "file"
    /\ Len(hist.prior.data) = Len(SrcData)
    /\ PriorBlocks[1] # SrcBlocks[1]
    /\ \A i \in 2..Len(SrcBlocks) : PriorBlocks[i] = SrcBlocks[i]

\* C10 as claimed: in that case the upload issues exactly one copyblock, at
\* offset 0, carrying filesize = the source size.
C10_OneRequest ==
    (UploadDone /\ ~hist.failed /\ OnlyFirstBlockDiffers) =>
        LET cb == CopyBlocks(Up.sent)
        IN /\ Len(cb) = 1
           /\ cb[1].offset = 0
           /\ cb[1].hasSize
           /\ cb[1].filesize = Len(SrcData)

\* C10 amended: in that case the upload issues exactly two copyblock requests:
\* the first block at offset 0 without filesize, then a bodyless copyblock at
\* offset = the source size that carries filesize = the source size and the
\* times; nothing is sent for the other blocks.
C10_TwoRequests ==
    (UploadDone /\ ~hist.failed /\ OnlyFirstBlockDiffers) =>
        LET cb == CopyBlocks(Up.sent)
        IN /\ Len(cb) = 2
           /\ cb[1].offset = 0 /\ cb[1].body = SrcBlocks[1] /\ ~cb[1].hasSize /\ ~cb[1].times
           /\ cb[2].offset = Len(SrcData) /\ cb[2].body = <<>>
           /\ cb[2].hasSize /\ cb[2].filesize = Len(SrcData)
           /\ cb[2].times /\ cb[2].mtime = src[TheFile].mtime

C10_Witness ==
    UploadDone /\ ~hist.failed /\ OnlyFirstBlockDiffers /\ blocksize > 1

\* C5: whenever the destination file has the source file's size and mtime, it
\* has the source file's bytes.
C5_MtimeMeansComplete ==
    (/\ IsFile(dst, TheDest)
     /\ IsFile(src, TheFile)
     /\ Len(dst[TheDest].data) = Len(src[TheFile].data)
     /\ dst[TheDest].mtime = src[TheFile].mtime)
    => dst[TheDest].data = src[TheFile].data

\* C11: the upload of an empty source file issues, after the filesums query,
\* exactly one request, a bodyless copyblock at offset 0 with filesize = 0 and
\* the source times; after it the destination file exists with length 0 (and
\* the source mtime), whether it was absent, empty or non-empty before.
C11_EmptyUpload ==
    (UploadDone /\ ~hist.failed /\ SrcData = <<>>) =>
        /\ Up.sent =
              <<[Req("filesums", <<"f%201">>) EXCEPT !.status = 200],
                [Req("copyblock", <<"f%201">>) EXCEPT
                    !.offset = 0, !.body = <<>>, !.hasSize = TRUE, !.filesize = 0,
                    !.times = TRUE, !.mtime = src[TheFile].mtime, !.status = 200]>>
        /\ IsFile(dst, TheDest)
        /\ Len(dst[TheDest].data) = 0
        /\ dst[TheDest].mtime = src[TheFile].mtime

\* Reached: an empty source file uploaded over a non-empty destination file.
C11_Witness ==
    /\ UploadDone /\ ~hist.failed
    /\ SrcData = <<>>
    /\ hist.prior.kind = "file"
    /\ Len(hist.prior.data) > blocksize

\* ------------------------------------------- upload to a v1.0 or v1.1 server
\* As InitUpload, with a server of either generation.
InitFallback == UploadFrom(AnyPrior) /\ api \in {"v1.0", "v1.1"}

NextFallback ==
    \/ NextUpload
    \/ CfStat("obs")
    \/ CfCopyFile("obs")

SpecFallback == InitFallback /\ [][NextFallback]_vars

CopyFiles(log) == SelectSeq(log, LAMBDA r : r.op = "copyfile")

\* C12: when filesums is answered 404, the upload issues no copyblock request
\* and exactly one copyfile request, which carries the entire file and the
\* source times (and on success leaves the destination as the source); when
\* filesums is answered with any other failure, copy_file raises and issues no
\* copyblock and no copyfile request.
C12_Fallback ==
    LET log == Up.sent
    IN (log # <<>>) =>
        /\ log[1].op = "filesums"
        /\ log[1].status = 404 =>
              /\ CopyBlocks(log) = <<>>
              /\ Len(CopyFiles(log)) = IF Up.pc \in {"cf_stat", "cf_copyfile"} THEN 0 ELSE 1
              /\ \A i \in 1..Len(log) :
                    log[i].op = "copyfile" =>
                        /\ i = 2
                        /\ log[i].path = <<"f%201">>
                        /\ log[i].body = SrcData
                        /\ log[i].times
                        /\ log[i].mtime = src[TheFile].mtime
              /\ UploadDone <=> (Len(log) = 2 /\ log[2].status = 200)
              /\ UploadDone => dst[TheDest] = src[TheFile]
        /\ log[1].status \notin {200, 404} =>
              /\ Len(log) = 1
              /\ Up.pc \in {"raised", "idle"}
              /\ ~UploadDone
              /\ dst[TheDest] = hist.prior
        /\ log[1].status = 200 => CopyFiles(log) = <<>>

\* Reached: a v1.0 server took the whole file over a longer destination file.
C12_Witness ==
    /\ UploadDone
    /\ Up.sent[1].status = 404
    /\ Len(CopyFiles(Up.sent)) = 1
    /\ Len(hist.prior.data) > Len(SrcData)
    /\ Len(SrcData) > blocksize

\* ----------------------------------------------- one file being edited
\* Requests take no time either: time passes only while both threads rest.
Resting(t) ==
    \/ th[t].pc \in {"raised", "off", "join"}
    \/ t = "obs" /\ th[t].pc = "idle" /\ (queue = <<>> \/ ~observing)
    \/ t = "main" /\ th[t].pc \in {"sleep", "wait_sleep"} /\ now < th[t].wake

TickQuiet ==
    /\ now < MaxQuiet
    /\ \A t \in Threads : Resting(t)
    /\ now' = now + 1
    /\ UNCHANGED <<src, dst, blocksize, api, updatedict, queue, th, observing, stamp, ops, faults, hist>>

\* The client is watching; the file is in the destination as it is in the
\* source; the buffer is empty.
InitClient ==
    /\ src = [EmptySrc EXCEPT ![TheFile] = File(<<0, 0>>, 1)]
    /\ dst = [EmptyDst EXCEPT ![DstRoot \o <<"f 1">>] = File(<<0, 0>>, 1)]
    /\ blocksize = 1
    /\ api = "v1.1"
    /\ updatedict = <<>>
    /\ queue = <<>>
    /\ th = [t \in Threads |-> IF t = "obs" THEN IdleThread("idle")
                               ELSE [IdleThread("sleep") EXCEPT !.wake = POLL_TIME]]
    /\ now = 0
    /\ observing = TRUE
    /\ stamp = 1
    /\ ops = 0
    /\ faults = 0
    /\ hist = NoHist

Handlers ==
    \/ Dispatch
    \/ OnModifiedTest
    \/ OnModifiedSet
    \/ OnModifiedInsert
    \/ ObsResume
    \/ \E t \in Threads : CfSums(t) \/ CfRead(t) \/ CfFinal(t)

Poller ==
    \/ PollWake
    \/ PollDue
    \/ PollPending
    \/ PollSet
    \/ PollDel

NextClient ==
    \/ UserRewrite(TheFile)
    \/ Handlers
    \/ Poller
    \/ Tick

SpecClient == InitClient /\ [][NextClient]_vars

NextClientTimed ==
    \/ UserRewrite(TheFile)
    \/ Handlers
    \/ Poller
    \/ TickQuiet

SpecClientTimed == InitClient /\ [][NextClientTimed]_vars

\* ------------------------------------------------ buffering of Modified
AtRest ==
    /\ th["obs"].pc = "idle"
    /\ queue = <<>>
    /\ th["main"].pc = "sleep"

\* C1 (as the spec states it): once the Modified events for a file have
\* stopped and no request has failed, updatemax plus one poll interval later
\* the destination holds the file as it is in the source.
C1_Delivered ==
    (/\ AtRest
     /\ ~hist.failed
     /\ hist.lastEv[TheFile] >= 0
     /\ now - hist.lastEv[TheFile] >= UpdateMax + POLL_TIME)
    => dst[TheDest] = src[TheFile]

\* C2: an upload of a file whose entry is in the update buffer starts no
\* sooner than updatemax after the previous upload of it ended, and a Modified
\* event that finds the entry not yet due stays marked in the entry until the
\* next upload starts.
C2_Spaced ==
    /\ \A i \in 1..Len(hist.starts) :
          hist.starts[i].buffered =>
              /\ hist.starts[i].since >= 0
              /\ hist.starts[i].at - hist.starts[i].since >= UpdateMax
    /\ hist.owed => Has(updatedict, TheFile) /\ Get(updatedict, TheFile).PendingUpdate

\* Reached: a buffered Modified event got its upload from the poll loop.
C2_Witness ==
    \E i \in 1..Len(hist.starts) :
        /\ hist.starts[i].buffered
        /\ hist.starts[i].at - hist.starts[i].since >= UpdateMax
        /\ hist.lastEv[TheFile] > hist.starts[i].since
        /\ hist.lastEv[TheFile] < hist.starts[i].at

\* The bound of C3 on a sequence of instants: any k of them that lie within T
\* time units number at most ceil(T / updatemax) + 1. Instants the clock does
\* not tell apart count as one time unit apart.
Within(at) ==
    \A i, j \in 1..Len(at) :
        i < j => j - i + 1 <= CeilDiv(Max(at[j] - at[i], 1), UpdateMax) + 1

\* C3 (as the spec states it): the successful copyblock or copyfile requests
\* for one file within any T time units number at most ceil(T/updatemax) + 1.
C3_RequestsBounded == Within(hist.reqAt)

\* C3 (amended): the uploads of one file completed within any T time units
\* number at most ceil(T/updatemax) + 1.
C3_UploadsBounded == Within([i \in 1..Len(hist.ups) |-> hist.ups[i].at])

\* Reached: three uploads of the file completed, the later ones from the
\* buffer, with more requests than uploads.
C3_Witness ==
    /\ Len(hist.ups) >= 3
    /\ \E i \in 1..Len(hist.starts) : hist.starts[i].buffered
    /\ Len(hist.reqAt) > Len(hist.ups)

\* ------------------------------------------- the handler and the poll loop
ObsStep == th'["obs"] # th["obs"]
MainStep == th'["main"] # th["main"]

\* C17: on_modified for a file.  When the path is not in the update buffer
\* the upload starts at once and the buffer is left alone until the upload
\* has completed, and then the entry {LastUpdated: now, PendingUpdate: false}
\* is inserted; when the path is in the buffer, PendingUpdate becomes true,
\* LastUpdated stays as it is and the handler returns having sent no request.
C17_OnModified ==
    [][ObsStep =>
        LET k == th["obs"].ev.src_path
            me == th'["obs"]
        IN /\ th["obs"].pc = "mod_test" =>
                /\ updatedict' = updatedict
                /\ IF Has(updatedict, k)
                   THEN me.pc = "mod_set"
                   ELSE me.pc = "cf_sums" /\ me.localfile = k /\ me.sent = <<>>
           /\ th["obs"].pc = "mod_set" =>
                /\ me.pc = "idle"
                /\ me.sent = <<>>
                /\ Has(updatedict, k) /\ Has(updatedict', k)
                /\ Get(updatedict', k).PendingUpdate
                /\ Get(updatedict', k).LastUpdated = Get(updatedict, k).LastUpdated
           /\ th["obs"].pc \in {"cf_sums", "cf_read", "cf_final"} => updatedict' = updatedict
           /\ th["obs"].pc = "mod_insert" =>
                /\ me.pc = "idle"
                /\ Has(updatedict', k) /\ Get(updatedict', k) = Entry(k, now, FALSE)
                /\ hist.ups # <<>> /\ hist.ups[Len(hist.ups)].name = k
                /\ me.sent # <<>> /\ me.sent[Len(me.sent)].op = "copyblock"
                /\ me.sent[Len(me.sent)].status = 200]_vars

\* C18: a tick of the poll loop, entry by entry of the list it took.  An
\* entry with now - LastUpdated >= updatemax whose PendingUpdate is true is
\* uploaded and then set to {LastUpdated: now, PendingUpdate: false}; one
\* whose PendingUpdate is false is removed without a request; an entry with
\* now - LastUpdated < updatemax is left as it is and causes no request.
C18_PollTick ==
    [][MainStep =>
        LET me == th["main"]
            nx == th'["main"]
            k == Head(me.names)
        IN /\ (me.pc = "scan" /\ me.names # <<>>) =>
                /\ Has(updatedict, k)
                /\ updatedict' = updatedict
                /\ nx.sent = me.sent
                /\ IF now - Get(updatedict, k).LastUpdated >= UpdateMax
                   THEN nx.pc = "scan_pending" /\ nx.names = me.names
                   ELSE nx.pc = "scan" /\ nx.names = Tail(me.names)
           /\ me.pc = "scan_pending" =>
                /\ Has(updatedict, k)
                /\ updatedict' = updatedict
                /\ nx.sent = me.sent
                /\ IF Get(updatedict, k).PendingUpdate
                   THEN nx.pc = "cf_sums" /\ nx.localfile = k
                   ELSE nx.pc = "scan_del"
           /\ me.pc \in {"cf_sums", "cf_read", "cf_final"} =>
                /\ updatedict' = updatedict
                /\ nx.pc # "raised"
           /\ me.pc = "scan_set" =>
                /\ Has(updatedict', k) /\ Get(updatedict', k) = Entry(k, now, FALSE)
                /\ Len(updatedict') = Len(updatedict)
                /\ hist.ups # <<>> /\ hist.ups[Len(hist.ups)].name = k
                /\ me.sent # <<>> /\ me.sent[Len(me.sent)].op = "copyblock"
                /\ me.sent[Len(me.sent)].status = 200
                /\ nx.pc = "scan" /\ nx.names = Tail(me.names)
           /\ me.pc = "scan_del" =>
                /\ Has(updatedict, k) /\ ~Has(updatedict', k)
                /\ me.sent = <<>> /\ nx.sent = <<>>
                /\ nx.pc = "scan" /\ nx.names = Tail(me.names)]_vars

\* Reached: a tick found the entry due with a write pending, uploaded the
\* file and set the entry anew, and the next tick found the entry not yet due.
C18_Witness ==
    /\ th["main"].pc = "sleep"
    /\ th["main"].sent = <<>>
    /\ Has(updatedict, TheFile)
    /\ ~Get(updatedict, TheFile).PendingUpdate
    /\ \E i \in 1..Len(hist.starts) :
          /\ hist.starts[i].buffered
          /\ LastDone(TheFile) >= hist.starts[i].at
          /\ Get(updatedict, TheFile).LastUpdated = LastDone(TheFile)
    /\ now > Get(updatedict, TheFile).LastUpdated
    /\ now - Get(updatedict, TheFile).LastUpdated < UpdateMax

\* ------------------------------------------------ initial synchronisation
Mirror(p) == DstRoot \o SubSeq(p, Len(SrcRoot) + 1, Len(p))

\* The client has found the server and enters sync_directory; the observer
\* has not been started.  The source holds some of a file, a directory and a
\* file in it, their mtime a whole second or not; the destination holds
\* nothing, the same, something stale, or an object of the other kind.
InitSync ==
    /\ \E m \in {Subsec, Subsec + 1} :
       \E sf \in {Absent, File(<<0, 1>>, m)}, sd \in {Absent, Dir}, sg \in {Absent, File(<<1>>, m)} :
       \E df \in {Absent, Dir, File(<<0, 1>>, m), File(<<1, 1>>, 0), File(<<0, 1>>, m + 1)},
          dd \in {Absent, Dir, File(<<>>, 0)},
          dg \in {Absent, File(<<1>>, m), File(<<0>>, 0)} :
            /\ sd = Absent => sg = Absent
            /\ dd # Dir => dg = Absent
            /\ src = [EmptySrc EXCEPT ![SrcRoot \o <<"f 1">>] = sf,
                                      ![SrcRoot \o <<"d">>] = sd,
                                      ![SrcRoot \o <<"d", "g">>] = sg]
            /\ dst = [EmptyDst EXCEPT ![DstRoot \o <<"f 1">>] = df,
                                      ![DstRoot \o <<"d">>] = dd,
                                      ![DstRoot \o <<"d", "g">>] = dg]
            /\ stamp = m
    /\ blocksize \in 1..MaxBlock
    /\ api = "v1.1"
    /\ updatedict = <<>>
    /\ queue = <<>>
    /\ th = [t \in Threads |-> IF t = "obs" THEN IdleThread("idle")
                               ELSE [IdleThread("sync") EXCEPT !.work = WalkList(src)]]
    /\ now = 0
    /\ observing = FALSE
    /\ ops = 0
    /\ faults = 0
    /\ hist = NoHist

NextSync ==
    \/ SyncStep
    \/ SyncMkdir
    \/ CfSums("main")
    \/ CfRead("main")
    \/ CfFinal("main")

SpecSync == InitSync /\ [][NextSync]_vars

SyncLog == th["main"].sent

\* C6 (as the spec states it): when sync_directory has returned and no
\* request failed, every source directory is a directory of the destination
\* and every source file has a destination file of the same size and mtime;
\* a createdir follows a direxists of the same path answered 410, and an
\* upload follows a checkfile of the same path answered 410 or with another
\* size or mtime than the source file's.
C6_Reconciled ==
    /\ (th["main"].pc = "sync_done" /\ ~hist.failed) =>
          \A p \in LocalPaths :
              /\ IsDir(src, p) => IsDir(dst, Mirror(p))
              /\ IsFile(src, p) =>
                    /\ IsFile(dst, Mirror(p))
                    /\ Len(dst[Mirror(p)].data) = Len(src[p].data)
                    /\ dst[Mirror(p)].mtime = src[p].mtime
    /\ \A i \in 1..Len(SyncLog) :
          /\ SyncLog[i].op = "createdir" =>
                /\ i > 1
                /\ SyncLog[i - 1].op = "direxists"
                /\ SyncLog[i - 1].path = SyncLog[i].path
                /\ SyncLog[i - 1].status = 410
          /\ SyncLog[i].op = "filesums" =>
                /\ i > 1
                /\ SyncLog[i - 1].op = "checkfile"
                /\ SyncLog[i - 1].path = SyncLog[i].path
                /\ \/ SyncLog[i - 1].status = 410
                   \/ \E p \in LocalPaths :
                        /\ Quote(Remote(p)) = SyncLog[i].path
                        /\ IsFile(src, p)
                        /\ \/ SyncLog[i - 1].filesize # Len(src[p].data)
                           \/ SyncLog[i - 1].mtime * Subsec # src[p].mtime

\* ----------------------------------------------------------------- startup
\* __main__, lines 310-319: the client is constructed; a server may be up or
\* not yet.  The source holds a file and a directory with a file; the
\* destination holds nothing or part of it.
InitStart ==
    /\ \E df \in {Absent, File(<<0, 1>>, Subsec)}, dd \in {Absent, Dir} :
        /\ src = [EmptySrc EXCEPT ![TheFile] = File(<<0, 1>>, Subsec),
                                  ![SrcRoot \o <<"d">>] = Dir,
                                  ![SrcRoot \o <<"d", "g">>] = File(<<1>>, Subsec + 1)]
        /\ dst = [EmptyDst EXCEPT ![DstRoot \o <<"f 1">>] = df, ![DstRoot \o <<"d">>] = dd]
    /\ blocksize = MaxBlock
    /\ api \in {"down", "v1.1"}
    /\ updatedict = <<>>
    /\ queue = <<>>
    /\ th = [t \in Threads |-> IF t = "obs" THEN IdleThread("idle") ELSE IdleThread("wait")]
    /\ now = 0
    /\ observing = FALSE
    /\ stamp = Subsec + 1
    /\ ops = 0
    /\ faults = 0
    /\ hist = NoHist

NextStart ==
    \/ ServerStart
    \/ WaitProbe
    \/ WaitSleep
    \/ SyncStep
    \/ SyncMkdir
    \/ WatchStart
    \/ UserRewrite(TheFile)
    \/ Dispatch
    \/ OnModifiedTest
    \/ OnModifiedSet
    \/ OnModifiedInsert
    \/ \E t \in Threads : CfSums(t) \/ CfRead(t) \/ CfFinal(t)
    \/ TickQuiet

\* The main thread runs on and time passes.
SpecStart ==
    /\ InitStart
    /\ [][NextStart]_vars
    /\ WF_vars(WaitProbe)
    /\ WF_vars(WaitSleep)
    /\ WF_vars(TickQuiet)

InWait == th["main"].pc \in {"wait", "wait_sleep"}
InSync ==
    \/ th["main"].pc \in {"sync", "sync_mkdir"}
    \/ th["main"].pc \in {"cf_sums", "cf_read", "cf_final"} /\ th["main"].ret = "sync"

\* C29: at startup no request of reconciliation or of an event handler is
\* sent until a probe of the base API URL has been answered; a probe that
\* meets a connection error is followed, a second later, by another probe;
\* any answer, whatever its status, ends the wait; once a server is up the
\* wait ends, and reconciliation comes before the observer is started.
C29_Startup ==
    /\ [](InWait => /\ th["main"].sent = <<>> /\ th["obs"].sent = <<>>
                    /\ hist.last.op = "none"
                    /\ ~observing)
    /\ [](InSync => /\ th["main"].sent[1].op = "probe"
                    /\ th["main"].sent[1].status \in ProbeAnswers
                    /\ ~observing /\ th["obs"].sent = <<>>)
    /\ [][MainStep =>
            /\ th["main"].pc = "wait" =>
                  IF api = "down"
                  THEN th'["main"].pc = "wait_sleep" /\ th'["main"].wake = now + 1
                  ELSE th'["main"].pc = "sync" /\ Len(th'["main"].sent) = 1
            /\ th["main"].pc = "wait_sleep" => (th'["main"].pc = "wait" /\ now >= th["main"].wake)]_vars
    /\ [][(observing' /\ ~observing) => th["main"].pc = "sync_done"]_vars
    /\ (api # "down") ~> ~InWait

\* Reached: two probes met no server, a later one was answered with an error
\* status, reconciliation sent its requests and returned.
C29_Witness ==
    /\ th["main"].pc = "sync_done"
    /\ th["main"].wake >= 2
    /\ th["main"].sent[1].op = "probe" /\ th["main"].sent[1].status = 500
    /\ \E i \in 2..Len(th["main"].sent) : th["main"].sent[i].op = "copyblock"
    /\ ~observing

\* ------------------------------------------------- runs of the client
\* The client is started with a server up, reconciles, watches one file that
\* the user rewrites, is stopped by SIGINT at any point of the poll loop, and
\* is started again; the last run is followed to the end of its
\* reconciliation.  The destination has the file as the source has it, or
\* not at all.
InitRun ==
    /\ src = [EmptySrc EXCEPT ![TheFile] = File(<<0, 0>>, Subsec)]
    /\ \E df \in {Absent, File(<<0, 0>>, Subsec)} :
          dst = [EmptyDst EXCEPT ![DstRoot \o <<"f 1">>] = df]
    /\ blocksize = 1
    /\ api = "v1.1"
    /\ updatedict = <<>>
    /\ queue = <<>>
    /\ th = [t \in Threads |-> IF t = "obs" THEN IdleThread("idle") ELSE IdleThread("wait")]
    /\ now = 0
    /\ observing = FALSE
    /\ stamp = Subsec
    /\ ops = 0
    /\ faults = 0
    /\ hist = NoHist

NextRun ==
    \/ WaitProbe
    \/ SyncStep
    \/ (hist.run < MaxRuns /\ WatchStart)
    \/ UserRewrite(TheFile)
    \/ Handlers
    \/ Poller
    \/ TickQuiet
    \/ Stop
    \/ Rerun

SpecRun == InitRun /\ [][NextRun]_vars

\* The uploads completed in this run.
UpsOfRun == SubSeq(hist.ups, hist.base + 1, Len(hist.ups))
ByWatch(u) == u.by \in {"mod_insert", "scan_set"}

C30_Reuploaded ==
    /\ [][(th["main"].pc = "join" /\ Len(hist'.starts) > Len(hist.starts))
            => hist'.starts[Len(hist'.starts)].name \notin hist.deferred]_vars
    /\ [](hist.run > 1 /\ th["main"].pc = "sync_done" /\ ~hist.failed =>
            \A f \in hist.deferred :
                \E j \in 1..Len(UpsOfRun) : UpsOfRun[j].name = f /\ UpsOfRun[j].by = "sync")

\* What check_file compares: the size, and the destination's mtime in whole
\* seconds with the source's mtime.
LooksSame(f) ==
    /\ IsFile(dst, Mirror(f))
    /\ Len(dst[Mirror(f)].data) = Len(src[f].data)
    /\ (dst[Mirror(f)].mtime \div Subsec) * Subsec = src[f].mtime

\* C30 (amended): stopping looks at no entry and starts no upload of a file
\* with PendingUpdate set; the reconciliation of the next run uploads such a
\* file exactly when the destination has no such file, or one of another size
\* or with another mtime, in whole seconds, than the source's.
C30_ReuploadedIfDiffers ==
    /\ [][(th["main"].pc = "join" /\ Len(hist'.starts) > Len(hist.starts))
            => hist'.starts[Len(hist'.starts)].name \notin hist.deferred]_vars
    /\ [][(InPollLoop(th["main"]) /\ th'["main"].pc = "join")
            => (updatedict' = updatedict /\ dst' = dst /\ hist'.last = hist.last)]_vars
    /\ [][(/\ hist.run > 1
           /\ th["main"].pc = "sync" /\ MainStep
           /\ th["main"].work # <<>>
           /\ Head(th["main"].work) \in hist.deferred)
            => (th'["main"].pc = "cf_sums" <=> ~LooksSame(Head(th["main"].work)))]_vars

\* Reached: the client was stopped with PendingUpdate set for the file while
\* the destination had the version before the last write, and the next run
\* has uploaded the file.
C30_Witness ==
    /\ hist.run > 1
    /\ th["main"].pc = "sync_done"
    /\ TheFile \in hist.deferred
    /\ \E j \in 1..Len(UpsOfRun) : UpsOfRun[j].name = TheFile /\ UpsOfRun[j].by = "sync"
    /\ dst[TheDest] = src[TheFile]

\* --------------------------------------------------- a tree being changed
\* The client is watching.  The destination holds what the source holds: a
\* file with an entry in the update buffer that has just become due (with
\* a write pending, the destination has the version before it), a directory
\* with a file; and for a second file, both have it, neither has it, only the
\* destination has it (it was gone at startup), or only the source has it
\* (its upload failed).
InitTree ==
    /\ \E pending \in BOOLEAN :
       \E sh \in {Absent, File(<<0>>, 1)}, dh \in {Absent, File(<<0>>, 1)} :
            /\ src = [EmptySrc EXCEPT ![TheFile] = File(<<1, 1>>, IF pending THEN 3 ELSE 2),
                                      ![SrcRoot \o <<"d">>] = Dir,
                                      ![SrcRoot \o <<"d", "g">>] = File(<<1>>, 1),
                                      ![SrcRoot \o <<"h">>] = sh]
            /\ dst = [EmptyDst EXCEPT ![DstRoot \o <<"f 1">>] =
                                            File(IF pending THEN <<0, 1>> ELSE <<1, 1>>, 2),
                                      ![DstRoot \o <<"d">>] = Dir,
                                      ![DstRoot \o <<"d", "g">>] = File(<<1>>, 1),
                                      ![DstRoot \o <<"h">>] = dh]
            /\ updatedict = <<Entry(TheFile, 0, pending)>>
    /\ blocksize = 1
    /\ api = "v1.1"
    /\ queue = <<>>
    /\ th = [t \in Threads |-> IF t = "obs" THEN IdleThread("idle")
                               ELSE [IdleThread("sleep") EXCEPT !.wake = UpdateMax]]
    /\ now = UpdateMax
    /\ observing = TRUE
    /\ stamp = 3
    /\ ops = 0
    /\ faults = 0
    /\ hist = NoHist

TreeHandlers ==
    \/ Dispatch
    \/ OnCreatedReq
    \/ OnDeletedTest
    \/ OnDeletedDel
    \/ OnDeletedReq
    \/ OnMovedReq
    \/ OnMovedTest
    \/ OnMovedAssign
    \/ OnMovedDel
    \/ ObsResume

NextTree ==
    \/ \E p \in LocalPaths : UserDelete(p) \/ UserRmtree(p) \/ UserMkdir(p)
    \/ \E p, q \in LocalPaths : UserMove(p, q)
    \/ TreeHandlers
    \/ Poller
    \/ CfSums("main")
    \/ CfRead("main")
    \/ CfFinal("main")

SpecTree == InitTree /\ [][NextTree]_vars

\* ------------------------------------------------- deletions and renames
Obs == th["obs"]

RenameReq(ev) ==
    [Req("renameobject", Quote(RelPath(ev.src_path, SrcRoot))) EXCEPT
        !.newname = Quote(RelPath(ev.dest_path, SrcRoot)), !.status = 200]

\* C8 (as the spec states it): handling a Moved event issues one
\* RenameObject(rel(src), rel(dest)), and when it is answered the destination
\* has the object under the new name and nothing under the old name.
C8_Renamed ==
    [][(Obs.pc = "mov_req" /\ th'["obs"].pc = "mov_test") =>
          /\ th'["obs"].sent = <<RenameReq(Obs.ev)>>
          /\ ~Exists(dst', Mirror(Obs.ev.src_path))
          /\ Exists(dst', Mirror(Obs.ev.dest_path))]_vars

\* C8 (amended): handling a Moved event issues exactly one request,
\* RenameObject(rel(src), rel(dest)); when it is answered with success and
\* the destination held the object under the old name and the directory for
\* the new name, the object, with all below it, is under the new name and
\* nothing is under the old name; when the destination did not hold the
\* object under the old name, the destination is unchanged.
C8_RenamedWhenHeld ==
    /\ [](Obs.ev.type = "moved" /\ Obs.pc \in {"mov_test", "mov_assign", "mov_del", "idle"}
            => Obs.sent = <<RenameReq(Obs.ev)>>)
    /\ [][(Obs.pc = "mov_req" /\ th'["obs"].pc = "mov_test") =>
            LET old == Mirror(Obs.ev.src_path)
                new == Mirror(Obs.ev.dest_path)
            IN /\ (Exists(dst, old) /\ IsDir(dst, Parent(new))) =>
                      /\ \A c \in ServerPaths : IsPrefix(old, c) => ~Exists(dst', c)
                      /\ dst'[new] = dst[old]
                      /\ \A c \in ServerPaths :
                            IsPrefix(old, c) /\ Exists(dst, c) =>
                                /\ new \o SubSeq(c, Len(old) + 1, Len(c)) \in ServerPaths
                                /\ dst'[new \o SubSeq(c, Len(old) + 1, Len(c))] = dst[c]
               /\ ~Exists(dst, old) => dst' = dst]_vars

\* Reached: a file and a directory with a file in it were renamed in the
\* source, the events are handled, and the destination has the new names only.
C8_Witness ==
    /\ Obs.pc = "idle" /\ queue = <<>>
    /\ hist.last.op = "renameobject" /\ hist.last.status = 200
    /\ IsDir(src, SrcRoot \o <<"e">>) /\ IsFile(src, SrcRoot \o <<"h">>)
    /\ ~Exists(src, TheFile) /\ ~Exists(src, SrcRoot \o <<"d">>)
    /\ IsDir(dst, DstRoot \o <<"e">>) /\ IsFile(dst, DstRoot \o <<"e", "g">>)
    /\ ~Exists(dst, DstRoot \o <<"d">>) /\ ~Exists(dst, DstRoot \o <<"d", "g">>)
    /\ IsFile(dst, DstRoot \o <<"h">>) /\ ~Exists(dst, TheDest)

\* ---------------------------------------------- the buffer under deletions
\* The Deleted event of a file has been handled, the observer thread has
\* taken no other event since, and the source has nothing at the path.
Gone ==
    /\ Obs.pc = "idle"
    /\ Obs.ev.type = "deleted"
    /\ ~Obs.ev.is_directory
    /\ Obs.sent # <<>>
    /\ Obs.sent[Len(Obs.sent)].status = 200
    /\ ~Exists(src, Obs.ev.src_path)

\* C19 (as the spec states it): the handler of a Deleted event sends one
\* DeleteObject(rel(path)) and nothing else; once it has returned, the buffer
\* has no entry for the path and no copyblock or copyfile request for the
\* path is sent, whatever the poll loop is doing.  (No Modified event is
\* emitted in this specification.)
C19_NoPhantom ==
    /\ [](Gone =>
            /\ Obs.sent = <<[Req("deleteobject", Quote(RelPath(Obs.ev.src_path, SrcRoot)))
                                EXCEPT !.status = 200]>>
            /\ ~Has(updatedict, Obs.ev.src_path))
    /\ [][(Gone /\ hist'.last # hist.last
             /\ hist'.last.op \in {"copyblock", "copyfile"})
            => hist'.last.path # Quote(RelPath(Obs.ev.src_path, SrcRoot))]_vars

\* C20: on_moved from a to b, both inside the source root, with a in the
\* update buffer at the membership test: b gets a's LastUpdated and
\* PendingUpdate, a leaves the buffer, every other entry stays as it is, and
\* the handler returns having sent the rename request and no upload.
C20_EntryMoves ==
    [][ObsStep =>
        LET a == Obs.ev.src_path
            b == Obs.ev.dest_path
            me == th'["obs"]
        IN /\ Obs.pc = "mov_test" =>
                /\ updatedict' = updatedict
                /\ Has(updatedict, a) => me.pc = "mov_assign"
           /\ Obs.pc = "mov_assign" =>
                /\ me.pc = "mov_del"
                /\ Has(updatedict, a) /\ Has(updatedict', b)
                /\ Get(updatedict', b).LastUpdated = Get(updatedict, a).LastUpdated
                /\ Get(updatedict', b).PendingUpdate = Get(updatedict, a).PendingUpdate
                /\ \A i \in 1..Len(updatedict) :
                      updatedict[i].name # b => updatedict'[i] = updatedict[i]
           /\ Obs.pc = "mov_del" =>
                /\ me.pc = "idle"
                /\ Has(updatedict, a) /\ ~Has(updatedict', a)
                /\ \A i \in 1..Len(updatedict) :
                      updatedict[i].name # a =>
                          /\ Has(updatedict', updatedict[i].name)
                          /\ Get(updatedict', updatedict[i].name) = updatedict[i]
                /\ me.sent = <<RenameReq(Obs.ev)>>]_vars

\* ------------------------------------------------ requests on the server
\* The server alone: a client sends it requests one after another, and each
\* is answered from the tree as it is then.  The log of the client and
\* hist.last keep each request with its status.
Served == th["main"].sent

Answer(req, st, fs, info) ==
    /\ dst' = fs
    /\ th' = [th EXCEPT !["main"] = Logged([@ EXCEPT !.info = info], req, st)]
    /\ hist' = Noted(hist, req, st)
    /\ ops' = ops + 1
    /\ UNCHANGED <<src, blocksize, api, updatedict, queue, now, observing, stamp, faults>>

ServerOnly ==
    /\ src = EmptySrc
    /\ api = "v1.1"
    /\ updatedict = <<>>
    /\ queue = <<>>
    /\ th = [t \in Threads |-> IdleThread("off")]
    /\ now = 0
    /\ observing = FALSE
    /\ stamp = 0
    /\ ops = 0
    /\ faults = 0

\* --- directories, deletions and renames
ObjRels == {<<"f 1">>, <<"d">>, <<"d", "g">>, <<"e">>}

\* The destination holds any of a file, a directory that is empty or holds a
\* file (or a file in its place), and a second directory.
Trees ==
    {[EmptyDst EXCEPT ![DstRoot \o <<"f 1">>] = f,
                      ![DstRoot \o <<"d">>] = d,
                      ![DstRoot \o <<"d", "g">>] = g,
                      ![DstRoot \o <<"e">>] = e] :
        f \in {Absent, File(<<1>>, 1)}, d \in {Absent, Dir, File(<<>>, 1)},
        g \in {Absent, File(<<0>>, 1)}, e \in {Absent, Dir}}

InitObjects ==
    /\ dst \in {t \in Trees : WellFormed(t)}
    /\ blocksize = 1
    /\ hist = NoHist
    /\ ServerOnly

ServeCreateDir(rel) ==
    /\ ops < MaxOps
    /\ LET req == Req("createdir", Quote(rel))
           r == create_dir(dst, req.path)
       IN Answer(req, r.status, r.fs, NoInfo)

ServeDelete(rel) ==
    /\ ops < MaxOps
    /\ LET req == Req("deleteobject", Quote(rel))
           r == delete_object(dst, req.path)
       IN Answer(req, r.status, r.fs, NoInfo)

ServeRename(oldrel, newrel) ==
    /\ ops < MaxOps
    /\ LET req == [Req("renameobject", Quote(oldrel)) EXCEPT !.newname = Quote(newrel)]
           r == rename_object(dst, req.path, req.newname)
       IN Answer(req, r.status, r.fs, NoInfo)

NextObjects ==
    \/ \E rel \in ObjRels : ServeCreateDir(rel)
    \/ \E rel \in ObjRels : ServeDelete(rel)
    \/ \E oldrel, newrel \in ObjRels : ServeRename(oldrel, newrel)

SpecObjects == InitObjects /\ [][NextObjects]_vars

\* The path a logged request names, in the destination.
Target(r) == DstRoot \o Unquote(r.path)
Again == ops >= 1 /\ [hist'.last EXCEPT !.status = 0] = [hist.last EXCEPT !.status = 0]

\* C13: createdir on an existing directory, deleteobject on an absent path
\* and renameobject with an absent source path are each answered 200 and
\* leave the destination tree as it was; and a createdir, deleteobject or
\* renameobject request sent a second time leaves the tree as the first left
\* it.
C13_Idempotent ==
    [][ops' = ops + 1 =>
        LET r == hist'.last
        IN /\ (r.op = "createdir" /\ IsDir(dst, Target(r))) => (r.status = 200 /\ dst' = dst)
           /\ (r.op = "deleteobject" /\ ~Exists(dst, Target(r))) => (r.status = 200 /\ dst' = dst)
           /\ (r.op = "renameobject" /\ ~Exists(dst, Target(r))) => (r.status = 200 /\ dst' = dst)
           /\ (r.op \in {"createdir", "deleteobject", "renameobject"} /\ Again) => dst' = dst]_vars

\* Reached: a directory with a file in it was renamed, and the same request
\* came again and was answered 200.
C13_Witness ==
    /\ Len(Served) = 2
    /\ Served[1] = Served[2]
    /\ Served[2].op = "renameobject" /\ Served[2].status = 200
    /\ Served[2].path = <<"d">> /\ Served[2].newname = <<"e">>
    /\ IsFile(dst, DstRoot \o <<"e", "g">>)
    /\ ~Exists(dst, DstRoot \o <<"d">>)

\* C14 (as the spec states it): deleteobject on a directory that is not empty
\* is answered 200 and removes nothing.
C14_NonEmptyOk ==
    [][ops' = ops + 1 =>
        LET r == hist'.last
        IN (r.op = "deleteobject" /\ IsDir(dst, Target(r)) /\ Children(dst, Target(r)) # {})
            => (r.status = 200 /\ dst' = dst)]_vars

\* C14 (amended): deleteobject on a directory that is not empty is answered
\* 403 and removes neither the directory nor anything in it.
C14_NonEmptyRefused ==
    [][ops' = ops + 1 =>
        LET r == hist'.last
        IN (r.op = "deleteobject" /\ IsDir(dst, Target(r)) /\ Children(dst, Target(r)) # {})
            => (r.status = 403 /\ dst' = dst)]_vars

\* Reached: the request for a directory that holds a file was refused.
C14_Witness ==
    /\ hist.last.op = "deleteobject" /\ hist.last.status = 403
    /\ hist.last.path = <<"d">>
    /\ IsDir(dst, DstRoot \o <<"d">>)
    /\ IsFile(dst, DstRoot \o <<"d", "g">>)

\* --- checksums and block writes
\* The destination holds no file f 1 or one of any content, and maybe a
\* directory; one request is answered.
Bodies == UNION {[1..n -> {1}] : n \in 0..MaxBlock}

InitBlocks ==
    /\ \E f \in {Absent} \cup {File(e, 1) : e \in Datas}, d \in {Absent, Dir} :
        /\ dst = [EmptyDst EXCEPT ![DstRoot \o <<"f 1">>] = f, ![DstRoot \o <<"d">>] = d]
        /\ hist = [NoHist EXCEPT !.prior = f]
    /\ blocksize \in 1..MaxBlock
    /\ ServerOnly

ServeFileSums(rel) ==
    /\ ops = 0
    /\ LET req == Req("filesums", Quote(rel))
           r == file_sums(dst, req.path, blocksize)
       IN Answer(req, r.status, dst, [Blocksize |-> r.Blocksize, Checksums |-> r.Checksums])

ServeCopyBlock(rel, offset, body, hasSize, filesize) ==
    /\ ops = 0
    /\ LET req == [Req("copyblock", Quote(rel)) EXCEPT
                      !.offset = offset, !.body = body, !.hasSize = hasSize,
                      !.filesize = filesize, !.times = hasSize, !.mtime = 2]
           r == copy_block(dst, req.path, req.offset, req.body, req.hasSize,
                           req.filesize, req.times, req.mtime)
       IN Answer(req, r.status, r.fs, NoInfo)

NextBlocks ==
    \/ \E rel \in {<<"f 1">>, <<"d">>, <<"h">>} : ServeFileSums(rel)
    \/ \E rel \in {<<"f 1">>, <<"d">>}, offset \in 0..(MaxLen + 1), body \in Bodies :
          \/ ServeCopyBlock(rel, offset, body, FALSE, 0)
          \/ \E filesize \in 0..MaxLen : ServeCopyBlock(rel, offset, body, TRUE, filesize)

SpecBlocks == InitBlocks /\ [][NextBlocks]_vars

\* The size of the destination file a logged request names (0 when there is
\* no regular file).
SizeAt(fs, r) == IF IsFile(fs, Target(r)) THEN Len(fs[Target(r)].data) ELSE 0

\* C15: filesums is always answered 200, with the server's block size and a
\* checksum list of ceil(destination size / Blocksize) entries, the digests
\* of the file's blocks in order; the list is empty when the destination
\* file is absent, is not a regular file, or is empty.
C15_SumsLength ==
    (hist.last.op = "filesums") =>
        LET r == hist.last
            info == th["main"].info
        IN /\ r.status = 200
           /\ info.Blocksize = blocksize
           /\ Len(info.Checksums) = CeilDiv(SizeAt(dst, r), blocksize)
           /\ (~IsFile(dst, Target(r)) \/ SizeAt(dst, r) = 0) => info.Checksums = <<>>
           /\ \A i \in 1..Len(info.Checksums) :
                 info.Checksums[i] =
                    Sha1(SubSeq(dst[Target(r)].data, (i - 1) * blocksize + 1,
                                Min(i * blocksize, SizeAt(dst, r))))

\* Reached: the checksums of a file whose last block is short.
C15_Witness ==
    /\ hist.last.op = "filesums"
    /\ SizeAt(dst, hist.last) > blocksize
    /\ SizeAt(dst, hist.last) % blocksize # 0
    /\ Len(th["main"].info.Checksums) >= 2

\* C16: a copyblock request with filesize = n that is answered 200 leaves the
\* destination file exactly n bytes long, whatever the file was before
\* (absent, shorter, longer), for every offset and every body length.
C16_ExactSize ==
    (hist.last.op = "copyblock" /\ hist.last.status = 200 /\ hist.last.hasSize) =>
        /\ IsFile(dst, Target(hist.last))
        /\ Len(dst[Target(hist.last)].data) = hist.last.filesize

\* Reached: a block written beyond the declared size of a file that was
\* shorter than that size.
C16_Witness ==
    /\ hist.last.op = "copyblock" /\ hist.last.status = 200 /\ hist.last.hasSize
    /\ hist.last.body # <<>>
    /\ hist.last.offset > hist.last.filesize
    /\ hist.prior.kind = "file"
    /\ Len(hist.prior.data) < hist.last.filesize
    /\ Len(hist.prior.data) > 0

\* ------------------------------------------ events of every kind, watched
\* The client is watching with the poll loop about to wake.  The file has an
\* entry that has become due with a write pending (the destination has the
\* version before it); the user deletes and renames files and directories,
\* writes new files and makes directories.
InitEvents ==
    /\ src = [EmptySrc EXCEPT ![TheFile] = File(<<1, 1>>, 3), ![SrcRoot \o <<"d">>] = Dir]
    /\ dst = [EmptyDst EXCEPT ![TheDest] = File(<<0, 1>>, 2), ![DstRoot \o <<"d">>] = Dir]
    /\ updatedict = <<Entry(TheFile, 0, TRUE)>>
    /\ blocksize = MaxBlock
    /\ api = "v1.1"
    /\ queue = <<>>
    /\ th = [t \in Threads |-> IF t = "obs" THEN IdleThread("idle")
                               ELSE [IdleThread("sleep") EXCEPT !.wake = UpdateMax]]
    /\ now = UpdateMax
    /\ observing = TRUE
    /\ stamp = 3
    /\ ops = 0
    /\ faults = 0
    /\ hist = NoHist

NextEvents ==
    \/ \E p \in LocalPaths : UserDelete(p) \/ UserCreate(p) \/ UserMkdir(p)
    \/ \E p, q \in LocalPaths : UserMove(p, q)
    \/ TreeHandlers
    \/ OnModifiedTest
    \/ OnModifiedSet
    \/ OnModifiedInsert
    \/ Poller
    \/ \E t \in Threads : CfSums(t) \/ CfRead(t) \/ CfFinal(t)

SpecEvents == InitEvents /\ [][NextEvents]_vars

\* A thread is inside copy_file for the local file p.
Uploading(t, p) ==
    /\ th[t].pc \in {"cf_sums", "cf_read", "cf_final"}
    /\ th[t].localfile = p

\* C22 (as the spec states it): at no moment are two executions of copy_file
\* for the same path in progress, one in a handler on the observer thread
\* and one in the poll loop on the main thread.
C22_OneUpload ==
    \A p \in LocalPaths : ~(Uploading("obs", p) /\ Uploading("main", p))

\* C26: a Created event for a file and a Modified event for a directory end
\* in their handlers with no request sent and the update buffer as it was; a
\* Created event for a directory is answered with one CreateDir request for
\* the directory's path relative to the source root, and nothing else.
C26_CreatedAndDirModified ==
    /\ [](\/ (Obs.ev.type = "created" /\ ~Obs.ev.is_directory)
          \/ (Obs.ev.type = "modified" /\ Obs.ev.is_directory)
          => Obs.pc = "idle" /\ Obs.sent = <<>>)
    /\ [](Obs.ev.type = "created" /\ Obs.ev.is_directory =>
            \/ Obs.pc = "crt_req" /\ Obs.sent = <<>>
            \/ /\ Obs.pc \in {"idle", "raised"}
               /\ Len(Obs.sent) = 1
               /\ Obs.sent[1].op = "createdir"
               /\ Obs.sent[1].path = Quote(RelPath(Obs.ev.src_path, SrcRoot)))
    /\ [][(ObsStep /\ Obs'.ev.type \in {"created", "modified"}
                  /\ (Obs'.ev.type = "created" \/ Obs'.ev.is_directory))
            => updatedict' = updatedict]_vars
    /\ [][(ObsStep /\ ~(Obs'.ev.type = "created" /\ Obs'.ev.is_directory)
                  /\ (Obs'.ev.type = "created" \/ (Obs'.ev.type = "modified" /\ Obs'.ev.is_directory)))
            => (dst' = dst /\ hist'.reqAt = hist.reqAt)]_vars

\* Reached: with an entry in the buffer and the poll loop inside an upload,
\* a directory was created in the destination by the one request of its
\* Created event, and the Created event of a new file and the Modified event
\* of the directory it is in have ended in their handlers.
C26_Witness ==
    /\ updatedict # <<>>
    /\ Uploading("main", TheFile)
    /\ IsDir(dst, DstRoot \o <<"e">>)
    /\ Obs.ev = Event("modified", SrcRoot, <<>>, TRUE)
    /\ Obs.pc = "idle"
    /\ queue = <<Event("modified", SrcRoot \o <<"h">>, <<>>, FALSE)>>

\* ---------------------------------------------------- a failing upload
\* The client is watching with the poll loop about to wake.  Two files have
\* entries that have become due with a write pending; one request will be
\* refused by the server; the user writes the first file again.
OtherFile == SrcRoot \o <<"d", "g">>

InitFailing ==
    /\ src = [EmptySrc EXCEPT ![TheFile] = File(<<1, 1>>, 3),
                              ![SrcRoot \o <<"d">>] = Dir,
                              ![OtherFile] = File(<<1>>, 3)]
    /\ dst = [EmptyDst EXCEPT ![TheDest] = File(<<0, 1>>, 2),
                              ![DstRoot \o <<"d">>] = Dir,
                              ![Mirror(OtherFile)] = File(<<0>>, 2)]
    /\ updatedict = <<Entry(TheFile, 0, TRUE), Entry(OtherFile, 0, TRUE)>>
    /\ blocksize = MaxBlock
    /\ api = "v1.1"
    /\ queue = <<>>
    /\ th = [t \in Threads |-> IF t = "obs" THEN IdleThread("idle")
                               ELSE [IdleThread("sleep") EXCEPT !.wake = UpdateMax]]
    /\ now = UpdateMax
    /\ observing = TRUE
    /\ stamp = 3
    /\ ops = 0
    /\ faults = 1
    /\ hist = NoHist

NextFailing ==
    \/ UserRewrite(TheFile)
    \/ Handlers
    \/ Poller
    \/ TickQuiet

SpecFailing == InitFailing /\ [][NextFailing]_vars

\* copy_file raises in thread t at this step.
UploadFails(t) ==
    /\ th[t].pc \in {"cf_sums", "cf_read", "cf_final"}
    /\ th'[t].pc = "raised"

\* The poll loop has ended in the upload of p.
PollerFailedOn(p) ==
    /\ th["main"].pc = "raised"
    /\ th["main"].ret = "scan_set"
    /\ th["main"].localfile = p
    /\ th["main"].names # <<>> /\ Head(th["main"].names) = p

\* C24 (as the spec states it): when the upload of a due entry raises in the
\* poll loop, the loop goes on with the remaining entries of the scan (and
\* so to its next sleep and tick).
C24_PollerSurvives ==
    [][UploadFails("main") =>
          /\ th'["main"].pc = "scan"
          /\ th'["main"].names = Tail(th["main"].names)]_vars

\* C25 (as the spec states it): a failing upload leaves the update buffer as
\* it was, and the handler of the next Modified event for the file starts
\* the upload again.
C25_RetryOnNextEvent ==
    /\ [][(\E t \in Threads : UploadFails(t)) => updatedict' = updatedict]_vars
    /\ [][(/\ th["obs"].pc = "mod_test"
           /\ ObsStep
           /\ PollerFailedOn(th["obs"].ev.src_path))
            => th'["obs"].pc = "cf_sums"]_vars

\* ------------------------------------------- one context at a time
\* A handler is between its membership test and its write.
InHandlerOfEntry ==
    \/ th["obs"].pc \in {"mod_set", "mod_insert", "del_del", "mov_assign", "mov_del"}
    \/ th["obs"].pc \in {"cf_sums", "cf_read", "cf_final"} /\ th["obs"].ret = "mod_insert"

\* A step that reads or writes the dictionary.
HandlerAccess ==
    /\ ObsStep
    /\ th["obs"].pc \in {"mod_test", "mod_set", "mod_insert", "del_test", "del_del",
                         "mov_test", "mov_assign", "mov_del"}
PollerAccess ==
    /\ MainStep
    /\ \/ th["main"].pc = "sleep"
       \/ th["main"].pc = "scan" /\ th["main"].names # <<>>
       \/ th["main"].pc \in {"scan_pending", "scan_set", "scan_del"}

\* C23 (as the spec states it): no handler reads or writes the update buffer
\* between a scan's first read of an entry and its last write or removal of
\* it, and the poll loop does not read or write the buffer between a
\* handler's membership test and its write.
C23_OneContext ==
    /\ [][HandlerAccess => ~InScanOfEntry]_vars
    /\ [][PollerAccess => ~InHandlerOfEntry]_vars

\* ------------------------------------------- moves across the source root
\* The client is watching; the file has an entry in the update buffer that
\* is not yet due; files are renamed inside the source directory, out of it
\* and into it.
InitOutside ==
    /\ src = [EmptySrc EXCEPT ![TheFile] = File(<<1, 1>>, 2), ![SrcRoot \o <<"d">>] = Dir]
    /\ dst = [EmptyDst EXCEPT ![TheDest] = File(<<1, 1>>, 2), ![DstRoot \o <<"d">>] = Dir]
    /\ updatedict = <<Entry(TheFile, 0, FALSE)>>
    /\ blocksize = MaxBlock
    /\ api = "v1.1"
    /\ queue = <<>>
    /\ th = [t \in Threads |-> IF t = "obs" THEN IdleThread("idle")
                               ELSE [IdleThread("sleep") EXCEPT !.wake = POLL_TIME]]
    /\ now = 0
    /\ observing = TRUE
    /\ stamp = 2
    /\ ops = 0
    /\ faults = 1
    /\ hist = NoHist

NextOutside ==
    \/ \E p \in LocalPaths, q \in OutsidePaths : UserMoveOut(p, q) \/ UserMoveIn(q, p)
    \/ \E p, q \in LocalPaths : UserMove(p, q)
    \/ Dispatch
    \/ OnMovedReq
    \/ OnMovedTest
    \/ OnMovedAssign
    \/ OnMovedDel
    \/ ObsResume

SpecOutside == InitOutside /\ [][NextOutside]_vars

\* The segments of a request path as the client built it.
Climbs(path) == \E i \in 1..Len(path) : Unquote(path)[i] = ".."
Rooted(path) == path # <<>> /\ path[1] = "/"

\* C27 (as the spec states it): no path and no newname of a request the
\* client has sent contains a ".." segment or begins with "/".
C27_NoDotDot ==
    \A t \in Threads : \A i \in 1..Len(th[t].sent) :
        /\ ~Climbs(th[t].sent[i].path) /\ ~Rooted(th[t].sent[i].path)
        /\ ~Climbs(th[t].sent[i].newname) /\ ~Rooted(th[t].sent[i].newname)

\* ------------------------------------------- paths that leave the root
\* The server alone.  Its file system has, beside the destination root, a
\* directory /etc with a file; requests come with paths that climb out of
\* the root with "..", and with an absolute newname.
ServerOutside == {<<"etc">>, <<"etc", "x">>, <<"etc", "y">>}
TravRels == {<<"f 1">>, <<"..", "etc", "x">>, <<"..", "etc", "y">>}
TravNames == {<<"h">>, <<"/", "etc", "x">>, <<"..", "etc", "y">>}

InitTraversal ==
    /\ \E f \in {Absent, File(<<1>>, 1)} :
          dst = [p \in ServerPaths \cup ServerOutside |->
                    IF p = TheDest THEN f
                    ELSE IF p = <<"etc">> THEN Dir
                    ELSE IF p = <<"etc", "x">> THEN File(<<0, 1>>, 1)
                    ELSE Absent]
    /\ blocksize = 1
    /\ hist = NoHist
    /\ ServerOnly

ServeSums(rel) ==
    /\ ops < MaxOps
    /\ LET req == Req("filesums", Quote(rel))
           r == file_sums(dst, req.path, blocksize)
       IN Answer(req, r.status, dst, [Blocksize |-> r.Blocksize, Checksums |-> r.Checksums])

ServeWrite(rel) ==
    /\ ops < MaxOps
    /\ LET req == [Req("copyblock", Quote(rel)) EXCEPT !.body = <<1>>]
           r == copy_block(dst, req.path, req.offset, req.body, req.hasSize,
                           req.filesize, req.times, req.mtime)
       IN Answer(req, r.status, r.fs, NoInfo)

NextTraversal ==
    \/ \E rel \in TravRels : ServeCreateDir(rel) \/ ServeDelete(rel) \/ ServeSums(rel) \/ ServeWrite(rel)
    \/ \E oldrel \in TravRels, newrel \in TravNames : ServeRename(oldrel, newrel)

SpecTraversal == InitTraversal /\ [][NextTraversal]_vars

\* The request names a path that does not normalise under the root.
Escapes(rel) == ~IsPrefix(DstRoot, Norm(ServerPath(rel)))

\* C28 (as the spec states it): no request changes anything outside the
\* destination root, and a filesums request for a path that leaves the root
\* is not answered from a file outside it.
C28_UnderRoot ==
    [][ops' = ops + 1 =>
        /\ \A p \in ServerOutside : dst'[p] = dst[p]
        /\ (hist'.last.op = "filesums" /\ Escapes(hist'.last.path))
              => th'["main"].info.Checksums = <<>>]_vars

\* -------------------------------------------------- a refused copyblock
\* The requests of the upload a thread is in, or was in last: those of its
\* log from the last filesums request on.
RECURSIVE LastSums(_, _)
LastSums(log, i) ==
    IF i = 0 THEN 1
    ELSE IF log[i].op = "filesums" THEN i
    ELSE LastSums(log, i - 1)
ThisUpload(t) == SubSeq(th[t].sent, LastSums(th[t].sent, Len(th[t].sent)), Len(th[t].sent))

\* C33: a copyblock request answered with a non-success status is the last
\* request of its upload and copy_file raises (the thread is in its terminal
\* state, or the observer is back at its queue with nothing sent since); and the destination's mtime
\* becomes the source's only by a copyblock request that carries the times
\* and is answered with success, so an upload that failed before that
\* request has not set it.
C33_FailedUploadStops ==
    /\ [](\A t \in Threads : \A i \in 1..Len(th[t].sent) :
            (th[t].sent[i].op = "copyblock" /\ th[t].sent[i].status # 200)
                => (i = Len(th[t].sent) /\ th[t].pc \in {"raised", "idle"}))
    /\ [][\A p \in LocalPaths :
            (/\ IsFile(src, p) /\ IsFile(dst', Mirror(p))
             /\ dst'[Mirror(p)] # dst[Mirror(p)]
             /\ dst'[Mirror(p)].mtime = src[p].mtime)
            => (/\ hist'.last.op = "copyblock"
                /\ hist'.last.times
                /\ hist'.last.status = 200)]_vars

\* Reached: the poll loop's upload of the file has ended in its data block,
\* which was refused; no request with the times was sent, and the
\* destination has the mtime it had.
C33_Witness ==
    /\ th["main"].pc = "raised"
    /\ th["main"].localfile = TheFile
    /\ Len(ThisUpload("main")) = 2
    /\ ThisUpload("main")[2].op = "copyblock"
    /\ ThisUpload("main")[2].status = 403
    /\ ~ThisUpload("main")[2].times
    /\ ThisUpload("main")[2].body # <<>>
    /\ dst[TheDest].mtime # src[TheFile].mtime

\* --------------------------------- a Modified event during the poll loop
\* C31 (as the spec states it): a Modified event that on_modified recorded
\* in the buffer while the poll loop was uploading the file, or was between
\* its PendingUpdate test and its removal of the entry, is not lost: until an
\* upload of the file starts, the file has an entry with PendingUpdate set.
C31_NotLost ==
    \A p \in hist.during : Has(updatedict, p) /\ Get(updatedict, p).PendingUpdate

\* ------------------------------------------------- keys of the buffer
\* C32 (as the spec states it): when the handlers of the events emitted so
\* far have ended, every key of the update buffer is the path of a file
\* that exists below the source root.
C32_KeysExist ==
    (Obs.pc = "idle" /\ queue = <<>>) =>
        \A i \in 1..Len(updatedict) :
            /\ updatedict[i].name \in LocalPaths
            /\ IsFile(src, updatedict[i].name)

====
